---------------------------- MODULE Spec2Model ----------------------------
(***************************************************************************)
(* A model of the ADSBee console monitor (src/adsbee_console.py):          *)
(*   - ADSBeeWebSocket: handshake, frame encoding/decoding, ping/pong;     *)
(*   - CleanMonitor: the socket loop (receive_thread), the keyboard loop   *)
(*     (input_thread), the classification pipeline and run()'s lifecycle.  *)
(* Text is a sequence of code points, bytes are numbers in 0..255.         *)
(***************************************************************************)
EXTENDS Integers, Sequences, FiniteSets, TLC

VARIABLES
    ws,       \* the ADSBeeWebSocket object: sock, connected
    hs,       \* handshake: bytes the server still has to deliver, response read so far
    wire,     \* frame bytes the server has sent and receive() has not read yet
    peer_closed, \* the server closes its side once `wire` is drained
    sent,     \* the buffers handed to sock.send after the handshake, in order
    mon,      \* the CleanMonitor object's fields (self.*), stats apart
    stats,    \* self.stats
    rt,       \* the socket loop: position and locals of receive_thread
    mt,       \* the main thread: position in run() and what it has done
    stdin,    \* keys typed and not yet read by the keyboard loop
    tty,      \* the terminal's settings
    rx,       \* what the last receive() call that read a frame parsed and returned
    env       \* the operator and the server: how much they have typed and sent

vars == <<ws, hs, wire, peer_closed, sent, mon, stats, rt, mt, stdin, tty, rx, env>>

-----------------------------------------------------------------------------
(* Text helpers: Python's str operations on sequences of code points.      *)

Min(a, b) == IF a < b THEN a ELSE b

Max(a, b) == IF a < b THEN b ELSE a

\* str.lower() on one code point (ASCII and Latin-1 letters).
LowerChar(c) ==
    IF (c >= 65 /\ c <= 90) \/ (c >= 192 /\ c <= 222 /\ c # 215) THEN c + 32 ELSE c

\* str.upper() on one code point (ASCII letters).
UpperChar(c) == IF c >= 97 /\ c <= 122 THEN c - 32 ELSE c

ToLower(s) == [i \in 1..Len(s) |-> LowerChar(s[i])]

ToUpper(s) == [i \in 1..Len(s) |-> UpperChar(s[i])]

\* Python's `sub in s`.
Contains(s, sub) ==
    \E i \in 1..(Len(s) - Len(sub) + 1) : SubSeq(s, i, i + Len(sub) - 1) = sub

\* s.startswith(p)
StartsWith(s, p) == Len(p) <= Len(s) /\ SubSeq(s, 1, Len(p)) = p

\* s.endswith(p)
EndsWith(s, p) == Len(p) <= Len(s) /\ SubSeq(s, Len(s) - Len(p) + 1, Len(s)) = p

-----------------------------------------------------------------------------
(* The compiled patterns of CleanMonitor.__init__ (all with re.I).         *)

LitDuplicatePacket == <<100, 117, 112, 108, 105, 99, 97, 116, 101, 32, 112, 97, 99, 107, 101, 116>>  \* 'duplicate packet'

LitIcaoEq == <<105, 99, 97, 111, 61, 48, 120>>  \* 'icao=0x'

LitUnableToDecode == <<117, 110, 97, 98, 108, 101, 32, 116, 111, 32, 100, 101, 99, 111, 100, 101>>  \* 'unable to decode'

LitIcaoSp == <<105, 99, 97, 111, 32, 48, 120>>  \* 'icao 0x'

LitCorrected == <<99, 111, 114, 114, 101, 99, 116, 101, 100>>  \* 'corrected'

LitBitError == <<98, 105, 116, 32, 101, 114, 114, 111, 114>>  \* 'bit error'

LitMqtt == <<109, 113, 116, 116>>  \* 'mqtt'

LitFeed == <<102, 101, 101, 100>>  \* 'feed'

LitError == <<101, 114, 114, 111, 114>>  \* 'error'

LitFailed == <<102, 97, 105, 108, 101, 100>>  \* 'failed'

LitWarning == <<119, 97, 114, 110, 105, 110, 103>>  \* 'warning'

LitSkipped == <<115, 107, 105, 112, 112, 101, 100>>  \* 'skipped'

LitInfo == <<105, 110, 102, 111>>  \* 'info'

\* The class [a-f0-9] under re.I.
IsHex(c) == (c >= 48 /\ c <= 57) \/ (c >= 97 /\ c <= 102) \/ (c >= 65 /\ c <= 70)

\* A literal of a re.I pattern (given in lower case) matches s at position i.
LitAt(s, lit, i) ==
    /\ i >= 1
    /\ i + Len(lit) - 1 <= Len(s)
    /\ \A k \in 1..Len(lit) : LowerChar(s[i + k - 1]) = lit[k]

\* re.search of  lit  in s
SearchLit(s, lit) == \E i \in 1..Len(s) : LitAt(s, lit, i)

\* re.search of  head.*tail  in s (lines hold no '\n', so '.' matches every char)
SearchHeadTail(s, head, tail) ==
    \E i \in 1..Len(s) :
        /\ LitAt(s, head, i)
        /\ \E j \in (i + Len(head))..Len(s) : LitAt(s, tail, j)

\* re.search of  head.*tail([a-f0-9]+)  in s
SearchHeadTailHex(s, head, tail) ==
    \E i \in 1..Len(s) :
        /\ LitAt(s, head, i)
        /\ \E j \in (i + Len(head))..Len(s) :
              /\ LitAt(s, tail, j)
              /\ j + Len(tail) <= Len(s)
              /\ IsHex(s[j + Len(tail)])

PatDuplicate(s) == SearchHeadTailHex(s, LitDuplicatePacket, LitIcaoEq)

PatDecodeFail(s) == SearchHeadTailHex(s, LitUnableToDecode, LitIcaoSp)

PatBitError(s) == SearchHeadTail(s, LitCorrected, LitBitError)

PatMqtt(s) == SearchLit(s, LitMqtt) \/ SearchLit(s, LitFeed)

PatError(s) == SearchLit(s, LitError) \/ SearchLit(s, LitFailed)

PatWarning(s) == SearchLit(s, LitWarning) \/ SearchLit(s, LitSkipped)

PatInfo(s) == SearchLit(s, LitInfo)

\* The end of the run of hex digits that starts at position i.
RECURSIVE HexRunEnd(_, _)
HexRunEnd(s, i) == IF i < Len(s) /\ IsHex(s[i + 1]) THEN HexRunEnd(s, i + 1) ELSE i

\* patterns['icao'].finditer(s) from position pos on: the set of
\* match.group(1).lower(), matches taken left to right without overlap.
RECURSIVE IcaoGroupsFrom(_, _)
IcaoGroupsFrom(s, pos) ==
    LET starts == {j \in pos..Len(s) :
                      /\ LitAt(s, LitIcaoEq, j)
                      /\ j + Len(LitIcaoEq) <= Len(s)
                      /\ IsHex(s[j + Len(LitIcaoEq)])}
    IN  IF starts = {} THEN {}
        ELSE LET j == CHOOSE x \in starts : \A y \in starts : x <= y
                 b == j + Len(LitIcaoEq)
                 e == HexRunEnd(s, b)
             IN  {ToLower(SubSeq(s, b, e))} \cup IcaoGroupsFrom(s, e + 1)

IcaoGroups(s) == IcaoGroupsFrom(s, 1)

-----------------------------------------------------------------------------
(* Bytes and the frame wire format.                                        *)

\* a ^ b on non-negative integers
RECURSIVE BitXor(_, _)
BitXor(a, b) ==
    IF a = 0 THEN b
    ELSE IF b = 0 THEN a
    ELSE ((a + b) % 2) + 2 * BitXor(a \div 2, b \div 2)

\* a | b on non-negative integers
RECURSIVE BitOr(_, _)
BitOr(a, b) ==
    IF a = 0 THEN b
    ELSE IF b = 0 THEN a
    ELSE (IF a % 2 = 1 \/ b % 2 = 1 THEN 1 ELSE 0) + 2 * BitOr(a \div 2, b \div 2)

\* a & b on non-negative integers
RECURSIVE BitAnd(_, _)
BitAnd(a, b) ==
    IF a = 0 \/ b = 0 THEN 0
    ELSE (IF a % 2 = 1 /\ b % 2 = 1 THEN 1 ELSE 0) + 2 * BitAnd(a \div 2, b \div 2)

\* struct.pack('>H', n)
PackH(n) == <<(n \div 256) % 256, n % 256>>

\* struct.pack('>Q', n), for the lengths below 2^31 that the model reaches
PackQ(n) ==
    <<0, 0, 0, 0, (n \div 16777216) % 256, (n \div 65536) % 256,
      (n \div 256) % 256, n % 256>>

\* struct.unpack('>H', b)[0]
UnpackH(b) == b[1] * 256 + b[2]

\* A length no wire of the model can hold.
HugeLength == 2147483647

\* struct.unpack('>Q', b)[0]; a value of 2^31 or more is kept as HugeLength
UnpackQ(b) ==
    IF b[1] = 0 /\ b[2] = 0 /\ b[3] = 0 /\ b[4] = 0 /\ b[5] < 128
    THEN b[5] * 16777216 + b[6] * 65536 + b[7] * 256 + b[8]
    ELSE HugeLength

\* mask = b'\x37\x42\x13\x99'
MaskKey == <<55, 66, 19, 153>>

\* bytes(b ^ mask[i % 4] for i, b in enumerate(payload))
XorMask(payload, mask) ==
    [i \in 1..Len(payload) |-> BitXor(payload[i], mask[((i - 1) % 4) + 1])]

\* A variant of the length field that keeps the 7-bit form up to 126.
FrameLength_Inline126(length) ==
    IF length <= 126 THEN <<BitOr(128, length)>>
    ELSE IF length <= 65535 THEN <<BitOr(128, 126)>> \o PackH(length)
    ELSE <<BitOr(128, 127)>> \o PackQ(length)

\* _create_frame: the second header byte and the extended length
FrameLength(length) ==
    IF length <= 125 THEN <<BitOr(128, length)>>
    ELSE IF length <= 65535 THEN <<BitOr(128, 126)>> \o PackH(length)
    ELSE <<BitOr(128, 127)>> \o PackQ(length)

\* A variant of _create_frame that sends the payload unmasked after the key.
CreateFrame_PlainPayload(opcode, payload) ==
    <<BitOr(128, opcode)>> \o FrameLength(Len(payload)) \o MaskKey \o payload

\* _create_frame(opcode, payload)
CreateFrame(opcode, payload) ==
    <<BitOr(128, opcode)>> \o FrameLength(Len(payload)) \o MaskKey
        \o XorMask(payload, MaskKey)

\* One UTF-8 sequence at the head of b: its length and code point, or
\* length 0 when the head byte starts no valid sequence.
Utf8Head(b) ==
    LET n  == Len(b)
        b1 == b[1]
        Cont(k) == k <= n /\ b[k] >= 128 /\ b[k] <= 191
        In2(lo, hi) == 2 <= n /\ b[2] >= lo /\ b[2] <= hi
    IN  IF b1 < 128 THEN [len |-> 1, cp |-> b1]
        ELSE IF b1 >= 194 /\ b1 <= 223 /\ Cont(2)
        THEN [len |-> 2, cp |-> (b1 - 192) * 64 + (b[2] - 128)]
        ELSE IF /\ b1 >= 224 /\ b1 <= 239
                /\ IF b1 = 224 THEN In2(160, 191)
                   ELSE IF b1 = 237 THEN In2(128, 159) ELSE Cont(2)
                /\ Cont(3)
        THEN [len |-> 3, cp |-> (b1 - 224) * 4096 + (b[2] - 128) * 64 + (b[3] - 128)]
        ELSE IF /\ b1 >= 240 /\ b1 <= 244
                /\ IF b1 = 240 THEN In2(144, 191)
                   ELSE IF b1 = 244 THEN In2(128, 143) ELSE Cont(2)
                /\ Cont(3) /\ Cont(4)
        THEN [len |-> 4, cp |-> (b1 - 240) * 262144 + (b[2] - 128) * 4096
                                 + (b[3] - 128) * 64 + (b[4] - 128)]
        ELSE [len |-> 0, cp |-> 0]

\* payload.decode('utf-8', errors='ignore'): the decoder drops a byte that
\* starts no valid sequence and goes on at the next one.  The bytes a valid
\* sequence takes after its first are continuation bytes, which start no
\* sequence themselves, so the result is the code points of the valid
\* sequences at every position, in order.
Utf8DecodeIgnore(b) ==
    LET n     == Len(b)
        heads == [i \in 1..n |-> Utf8Head(SubSeq(b, i, Min(n, i + 3)))]
        Valid(h) == h.len > 0
        kept  == SelectSeq(heads, Valid)
    IN  [k \in 1..Len(kept) |-> kept[k].cp]

\* text.encode('utf-8') of one code point
Utf8EncodeChar(c) ==
    IF c < 128 THEN <<c>>
    ELSE IF c < 2048 THEN <<192 + (c \div 64), 128 + (c % 64)>>
    ELSE IF c < 65536
    THEN <<224 + (c \div 4096), 128 + ((c \div 64) % 64), 128 + (c % 64)>>
    ELSE <<240 + (c \div 262144), 128 + ((c \div 4096) % 64),
           128 + ((c \div 64) % 64), 128 + (c % 64)>>

\* text.encode('utf-8'): the bytes of every code point, in order
Utf8Encode(t) ==
    LET slots == [j \in 1..(4 * Len(t)) |->
                    LET e == Utf8EncodeChar(t[((j - 1) \div 4) + 1])
                        k == ((j - 1) % 4) + 1
                    IN  IF k <= Len(e) THEN e[k] ELSE -1]
        IsByte(x) == x >= 0
    IN  SelectSeq(slots, IsByte)

-----------------------------------------------------------------------------
(* The transport: ADSBeeWebSocket.  The socket delivers the bytes of       *)
(* `wire` in order; when they run out, recv returns b'' if the peer has    *)
(* closed and otherwise raises socket.timeout (settimeout(5) of connect).  *)
(* sock.send hands the whole buffer to an open socket.                     *)

\* _recv_exact(n): "data" with the n bytes, "none" (an empty chunk: the peer
\* closed) or "raise" (recv timed out); rest is what stays on the wire.
RecvExact(bytes, n, closed) ==
    IF Len(bytes) >= n
    THEN [kind |-> "data", data |-> SubSeq(bytes, 1, n),
          rest |-> SubSeq(bytes, n + 1, Len(bytes))]
    ELSE [kind |-> IF closed THEN "none" ELSE "raise", data |-> <<>>, rest |-> <<>>]

\* What receive() hands back: result is "none" (None), "empty" ("") or
\* "text" (the decoded message, which may itself be empty).
RxResult(result, text, connected, rest, out, opcode, payload) ==
    [result |-> result, text |-> text, connected |-> connected, wire |-> rest,
     out |-> out, opcode |-> opcode, payload |-> payload]

\* What a `self.sock.send(self._create_frame(opcode, payload))` leaves in
\* `sent`: the buffer handed to the socket, with the arguments it was built
\* from.
Sent(opcode, payload) ==
    [opcode |-> opcode, payload |-> payload, frame |-> CreateFrame(opcode, payload)]

\* A variant of the opcode dispatch that hands a ping's payload on as text.
RxDispatch_PingAsText(opcode, payload, rest) ==
    IF opcode = 1 \/ opcode = 2 \/ opcode = 9
    THEN RxResult("text", Utf8DecodeIgnore(payload), TRUE, rest, <<>>, opcode, payload)
    ELSE IF opcode = 8
    THEN RxResult("none", <<>>, FALSE, rest, <<>>, opcode, payload)
    ELSE RxResult("empty", <<>>, TRUE, rest, <<>>, opcode, payload)

\* receive(): the dispatch on the opcode, payload already unmasked
RxDispatch(opcode, payload, rest) ==
    IF opcode = 1 \/ opcode = 2
    THEN RxResult("text", Utf8DecodeIgnore(payload), TRUE, rest, <<>>, opcode, payload)
    ELSE IF opcode = 8
    THEN RxResult("none", <<>>, FALSE, rest, <<>>, opcode, payload)
    ELSE IF opcode = 9
    THEN RxResult("empty", <<>>, TRUE, rest, <<Sent(10, payload)>>, opcode, payload)
    ELSE RxResult("empty", <<>>, TRUE, rest, <<>>, opcode, payload)

\* What a failed read inside receive()'s try block gives: a short read of
\* the first two bytes and every exception clear `connected`, a short
\* read later on returns None and leaves it set.
RxFail(kind, header, rest) ==
    RxResult("none", <<>>, ~(kind = "raise" \/ header), rest, <<>>, -1, <<>>)

\* A variant of the body read that hands on the bytes it got when the
\* payload comes short.
RxBody_PartialPayload(bytes, closed, opcode, masked, payload_len) ==
    LET mk == IF masked THEN RecvExact(bytes, 4, closed)
              ELSE [kind |-> "data", data |-> <<>>, rest |-> bytes]
    IN  IF mk.kind # "data" THEN RxFail(mk.kind, FALSE, mk.rest)
        ELSE LET n  == Min(payload_len, Len(mk.rest))
                 pl == RecvExact(mk.rest, n, closed)
             IN  RxDispatch(opcode,
                            IF masked THEN XorMask(pl.data, mk.data) ELSE pl.data,
                            pl.rest)

\* receive(): mask key and payload, the length being known
RxBody(bytes, closed, opcode, masked, payload_len) ==
    LET mk == IF masked THEN RecvExact(bytes, 4, closed)
              ELSE [kind |-> "data", data |-> <<>>, rest |-> bytes]
    IN  IF mk.kind # "data" THEN RxFail(mk.kind, FALSE, mk.rest)
        ELSE LET pl == RecvExact(mk.rest, payload_len, closed)
             IN  IF pl.kind # "data" THEN RxFail(pl.kind, FALSE, pl.rest)
                 ELSE RxDispatch(opcode,
                                 IF masked THEN XorMask(pl.data, mk.data) ELSE pl.data,
                                 pl.rest)

\* receive(timeout) on transport w with `bytes` on the wire
Receive(w, bytes, closed) ==
    IF ~w.connected
    THEN RxResult("none", <<>>, FALSE, bytes, <<>>, -1, <<>>)
    ELSE IF bytes = <<>> /\ ~closed
    THEN RxResult("empty", <<>>, TRUE, bytes, <<>>, -1, <<>>)
    ELSE LET hd == RecvExact(bytes, 2, closed)
         IN  IF hd.kind # "data" THEN RxFail(hd.kind, TRUE, hd.rest)
             ELSE LET opcode == BitAnd(hd.data[1], 15)
                      masked == BitAnd(hd.data[2], 128) # 0
                      len7   == BitAnd(hd.data[2], 127)
                  IN  IF len7 = 126
                      THEN LET ext == RecvExact(hd.rest, 2, closed)
                           IN  IF ext.kind # "data" THEN RxFail(ext.kind, FALSE, ext.rest)
                               ELSE RxBody(ext.rest, closed, opcode, masked,
                                           UnpackH(ext.data))
                      ELSE IF len7 = 127
                      THEN LET ext == RecvExact(hd.rest, 8, closed)
                           IN  IF ext.kind # "data" THEN RxFail(ext.kind, FALSE, ext.rest)
                               ELSE RxBody(ext.rest, closed, opcode, masked,
                                           UnpackQ(ext.data))
                      ELSE RxBody(hd.rest, closed, opcode, masked, len7)

\* send_text(text): whether it returns True, and what it sends
SendText(w, text) ==
    IF ~w.connected THEN [ok |-> FALSE, out |-> <<>>]
    ELSE IF w.sock # "open" THEN [ok |-> FALSE, out |-> <<>>]
    ELSE [ok |-> TRUE, out |-> <<Sent(1, Utf8Encode(text))>>]

\* A variant of close() that sends the close frame whatever `connected`
\* says.
Close_AlwaysSends(w) ==
    IF w.sock = "none" THEN [ws |-> w, out |-> <<>>]
    ELSE [ws |-> [sock |-> "closed", connected |-> FALSE],
          out |-> <<Sent(8, <<>>)>>]

\* close(): the transport afterwards, and what it sends
Close(w) ==
    IF w.sock = "none" THEN [ws |-> w, out |-> <<>>]
    ELSE [ws |-> [sock |-> "closed", connected |-> FALSE],
          out |-> IF w.connected /\ w.sock = "open"
                  THEN <<Sent(8, <<>>)>> ELSE <<>>]

-----------------------------------------------------------------------------
(* The objects after construction.                                         *)

\* ADSBeeWebSocket.__init__
NewWebSocket == [sock |-> "none", connected |-> FALSE]

\* self.stats of CleanMonitor.__init__ (start_time left out)
NewStats ==
    [total_messages |-> 0, filtered_messages |-> 0, duplicates |-> 0,
     decode_failures |-> 0, bit_errors |-> 0, mqtt_messages |-> 0,
     commands_sent |-> 0, icao_addresses |-> {}]

\* get_terminal_size(): the rows of the operator's terminal.
TermHeight == 7

\* self.log_height = self.term_height - self.input_height - 1
LogHeight == TermHeight - 2 - 1

\* deque(maxlen=self.log_height - 1)
DisplayMaxLen == LogHeight - 1

\* deque(maxlen=50)
HistoryMaxLen == 50

\* CleanMonitor.__init__(host, filters, log_file); decoder tells whether the
\* decoder module could be imported, log_file whether --log was given.
NewMonitor(filters, decoder, log_file) ==
    [filters |-> filters,
     running |-> TRUE,
     paused |-> FALSE,
     debug_mode |-> FALSE,
     decode_mode |-> decoder,
     decoder |-> decoder,
     show_help_overlay |-> FALSE,
     show_stats_overlay |-> FALSE,
     input_buffer |-> <<>>,
     command_history |-> <<>>,
     history_index |-> -1,
     tab_completion_index |-> -1,
     tab_suggestions |-> <<>>,
     tab_index |-> -1,
     display_buffer |-> <<>>,
     old_settings |-> "unset",
     log_handle |-> IF log_file THEN "open" ELSE "none"]

\* The socket loop before its thread is started; seen keeps the lines handed
\* to update_stats so far, entered the filter list as the loop of
\* should_display found it, for as long as that loop runs.
NewReceiveThread ==
    [pc |-> "idle", lines |-> <<>>, line |-> <<>>,
     it_idx |-> 0, it_live |-> TRUE, it_list |-> <<>>, entered |-> <<>>,
     seen |-> <<>>, shown |-> "none"]

\* The main thread at the start of run(); level is --log-level or <<>>.
\* error: run()'s `except Exception` has run; swallowed: the keyboard loop's
\* `except:` has; teardowns: how often the finally block has run, and
\* final_stats the statistics it printed.
NewMainThread(level) ==
    [pc |-> "connect", error |-> FALSE, swallowed |-> FALSE, teardowns |-> 0,
     final_stats |-> <<>>, initial_log_level |-> level]

\* A handshake that is over.
NoHandshake == [refused |-> FALSE, pending |-> <<>>, response |-> <<>>]

\* The terminal before the program touches it: cooked mode, nothing painted.
NewTty == [mode |-> "cooked", painted |-> <<>>, screen |-> "shell"]

\* No frame of the server's.
NoMessage == [fin |-> TRUE, opcode |-> -1, mask |-> <<>>, payload |-> <<>>, cut |-> 0]

\* Nothing typed, no frame sent by the server, none echoed; keys records
\* the keys of the operator where the keyboard loop is looked at alone,
\* calls and closes count the calls where the transport is looked at alone.
NewEnv ==
    [typed |-> 0, frames |-> 0, served |-> NoMessage, echoed |-> 0, keys |-> <<>>,
     calls |-> 0, closes |-> 0]

\* No receive() call made yet.
NewRx == [result |-> "unset", payload |-> <<>>, opcode |-> -1]

-----------------------------------------------------------------------------
(* The classification pipeline.                                            *)

Bump(b) == IF b THEN 1 ELSE 0

\* A variant of update_stats whose tests are an if/elif chain.
UpdateStats_Elif(st, message) ==
    LET d == PatDuplicate(message)
        f == ~d /\ PatDecodeFail(message)
        b == ~d /\ ~f /\ PatBitError(message)
        m == ~d /\ ~f /\ ~b /\ PatMqtt(message)
    IN  [st EXCEPT !.total_messages = @ + 1,
                   !.duplicates = @ + Bump(d),
                   !.decode_failures = @ + Bump(f),
                   !.bit_errors = @ + Bump(b),
                   !.mqtt_messages = @ + Bump(m),
                   !.icao_addresses = @ \cup IcaoGroups(message)]

\* A variant of update_stats that stores the identifiers as captured.
UpdateStats_NoLower(st, message) ==
    [st EXCEPT !.total_messages = @ + 1,
               !.duplicates = @ + Bump(PatDuplicate(message)),
               !.decode_failures = @ + Bump(PatDecodeFail(message)),
               !.bit_errors = @ + Bump(PatBitError(message)),
               !.mqtt_messages = @ + Bump(PatMqtt(message)),
               !.icao_addresses = @ \cup
                   {SubSeq(message, j + Len(LitIcaoEq),
                           HexRunEnd(message, j + Len(LitIcaoEq))) :
                        j \in {x \in 1..Len(message) :
                                  /\ LitAt(message, LitIcaoEq, x)
                                  /\ x + Len(LitIcaoEq) <= Len(message)
                                  /\ IsHex(message[x + Len(LitIcaoEq)])}}]

\* update_stats(message)
UpdateStats(st, message) ==
    [st EXCEPT !.total_messages = @ + 1,
               !.duplicates = @ + Bump(PatDuplicate(message)),
               !.decode_failures = @ + Bump(PatDecodeFail(message)),
               !.bit_errors = @ + Bump(PatBitError(message)),
               !.mqtt_messages = @ + Bump(PatMqtt(message)),
               !.icao_addresses = @ \cup IcaoGroups(message)]

\* A variant of the filter test that compares case-sensitively.
FilterMatches_CaseSensitive(f, message) == Contains(message, f)

\* `f.lower() in message.lower()`
FilterMatches(f, message) == Contains(ToLower(message), ToLower(f))

\* should_display up to the loop: "show" (return True at once) or "scan".
DisplayEntry(m) ==
    IF m.debug_mode THEN "show"
    ELSE IF m.filters = <<>> THEN "show"
    ELSE "scan"

\* A variant of the loop body that counts every filter it examines.
ScanStep_CountAll(list, idx, message, st) ==
    IF idx >= Len(list) THEN [done |-> TRUE, ret |-> FALSE, idx |-> idx, stats |-> st]
    ELSE [done |-> FilterMatches(list[idx + 1], message),
          ret |-> FilterMatches(list[idx + 1], message),
          idx |-> idx + 1,
          stats |-> [st EXCEPT !.filtered_messages = @ + 1]]

\* One turn of `for f in self.filters`: the list iterator stands at idx.
ScanStep(list, idx, message, st) ==
    IF idx >= Len(list)
    THEN [done |-> TRUE, ret |-> FALSE, idx |-> idx, stats |-> st]
    ELSE IF FilterMatches(list[idx + 1], message)
    THEN [done |-> TRUE, ret |-> TRUE, idx |-> idx + 1,
          stats |-> [st EXCEPT !.filtered_messages = @ + 1]]
    ELSE [done |-> FALSE, ret |-> FALSE, idx |-> idx + 1, stats |-> st]

\* get_message_prefix(message)
MessagePrefix(message) ==
    IF PatError(message) THEN "ERR"
    ELSE IF PatWarning(message) THEN "WRN"
    ELSE IF PatMqtt(message) THEN "MQT"
    ELSE IF PatInfo(message) THEN "INF"
    ELSE "none"

\* A variant of the append that puts the new element in front.
DequeAppend_Left(q, x, n) ==
    IF n <= 0 THEN <<>>
    ELSE IF Len(q) >= n THEN <<x>> \o SubSeq(q, 1, n - 1)
    ELSE <<x>> \o q

\* A variant of the append that never drops an element.
DequeAppend_Unbounded(q, x, n) == Append(q, x)

\* deque.append on a deque with maxlen n
DequeAppend(q, x, n) ==
    IF n <= 0 THEN <<>>
    ELSE IF Len(q) >= n THEN Append(SubSeq(q, Len(q) - n + 2, Len(q)), x)
    ELSE Append(q, x)

\* The line add_to_log formats: prefix, text, and whether the decoder
\* annotated it (the timestamp is left out).
LogEntry(m, message, prefix) ==
    [prefix |-> prefix, text |-> message, decoded |-> m.decode_mode /\ m.decoder]

\* A variant of the test that paints while the console is paused.
Paints_WhilePaused(m) == ~m.show_help_overlay /\ ~m.show_stats_overlay

\* add_to_log paints the line at once.
Paints(m) == ~m.paused /\ ~m.show_help_overlay /\ ~m.show_stats_overlay

\* add_to_log(message, prefix): the monitor afterwards
AddToLog(m, message, prefix) ==
    [m EXCEPT !.display_buffer = DequeAppend(@, LogEntry(m, message, prefix), DisplayMaxLen)]

\* add_to_log(message, prefix): the terminal afterwards
AddToLogTty(t, m, message, prefix) ==
    IF Paints(m) THEN [t EXCEPT !.painted = Append(@, LogEntry(m, message, prefix))]
    ELSE t

\* str.split('\n')
RECURSIVE SplitLines(_)
SplitLines(s) ==
    LET nl == {i \in 1..Len(s) : s[i] = 10}
    IN  IF nl = {} THEN <<s>>
        ELSE LET i == CHOOSE x \in nl : \A y \in nl : x <= y
             IN  <<SubSeq(s, 1, i - 1)>> \o SplitLines(SubSeq(s, i + 1, Len(s)))

\* str.strip('\r\n')
StripCrLf(s) ==
    LET keep == {i \in 1..Len(s) : s[i] # 13 /\ s[i] # 10}
    IN  IF keep = {} THEN <<>>
        ELSE SubSeq(s, CHOOSE x \in keep : \A y \in keep : x <= y,
                       CHOOSE x \in keep : \A y \in keep : x >= y)

-----------------------------------------------------------------------------
(* Texts of the console.                                                   *)

\* --host (its default)
Host == <<49, 57, 50, 46, 49, 54, 56, 46, 49, 46, 55, 51>>  \* '192.168.1.73'

LogLevelInfo == <<73, 78, 70, 79>>  \* 'INFO'

MsgFilterAdded == <<70, 105, 108, 116, 101, 114, 32, 97, 100, 100, 101, 100, 58, 32>>  \* 'Filter added: '

MsgFilterRemoved == <<70, 105, 108, 116, 101, 114, 32, 114, 101, 109, 111, 118, 101, 100, 58, 32>>  \* 'Filter removed: '

MsgFilters == <<70, 105, 108, 116, 101, 114, 115, 58, 32>>  \* 'Filters: '

MsgCommaSpace == <<44, 32>>  \* ', '

MsgNoFilters == <<78, 111, 32, 102, 105, 108, 116, 101, 114, 115, 32, 97, 99, 116, 105, 118, 101>>  \* 'No filters active'

MsgFiltersCleared == <<65, 108, 108, 32, 102, 105, 108, 116, 101, 114, 115, 32, 99, 108, 101, 97, 114, 101, 100>>  \* 'All filters cleared'

MsgUnknownCommand == <<85, 110, 107, 110, 111, 119, 110, 32, 99, 111, 109, 109, 97, 110, 100, 58, 32>>  \* 'Unknown command: '

MsgSent == <<83, 101, 110, 116, 58, 32>>  \* 'Sent: '

MsgConnectionClosed == <<67, 111, 110, 110, 101, 99, 116, 105, 111, 110, 32, 99, 108, 111, 115, 101, 100, 32, 98, 121, 32, 115, 101, 114, 118, 101, 114>>  \* 'Connection closed by server'

MsgDecodingEnabled == <<72, 101, 120, 32, 100, 101, 99, 111, 100, 105, 110, 103, 32, 101, 110, 97, 98, 108, 101, 100>>  \* 'Hex decoding enabled'

MsgDecodingDisabled == <<72, 101, 120, 32, 100, 101, 99, 111, 100, 105, 110, 103, 32, 100, 105, 115, 97, 98, 108, 101, 100>>  \* 'Hex decoding disabled'

MsgConnectedTo == <<67, 111, 110, 110, 101, 99, 116, 101, 100, 32, 116, 111, 32, 119, 115, 58, 47, 47>>  \* 'Connected to ws://'

MsgConsolePath == <<47, 99, 111, 110, 115, 111, 108, 101>>  \* '/console'

MsgPressF1 == <<80, 114, 101, 115, 115, 32, 70, 49, 32, 102, 111, 114, 32, 104, 101, 108, 112, 32, 124, 32, 67, 104, 101, 99, 107, 32, 108, 111, 103, 32, 108, 101, 118, 101, 108, 58, 32, 65, 84, 43, 76, 79, 71, 95, 76, 69, 86, 69, 76, 63>>  \* 'Press F1 for help | Check log level: AT+LOG_LEVEL?'

MsgTip == <<84, 105, 112, 58, 32, 65, 84, 43, 76, 79, 71, 95, 76, 69, 86, 69, 76, 61, 73, 78, 70, 79, 32, 40, 118, 101, 114, 98, 111, 115, 101, 41, 32, 111, 114, 32, 61, 87, 65, 82, 78, 73, 78, 71, 83, 32, 40, 110, 111, 114, 109, 97, 108, 41>>  \* 'Tip: AT+LOG_LEVEL=INFO (verbose) or =WARNINGS (normal)'

MsgSettingLogLevel == <<83, 101, 116, 116, 105, 110, 103, 32, 108, 111, 103, 32, 108, 101, 118, 101, 108, 32, 116, 111, 32>>  \* 'Setting log level to '

CmdLogLevel == <<65, 84, 43, 76, 79, 71, 95, 76, 69, 86, 69, 76, 61>>  \* 'AT+LOG_LEVEL='

CrLf == <<13, 10>>  \* '\r\n'

CmdF == <<47, 102>>  \* '/f'

CmdRf == <<47, 114, 102>>  \* '/rf'

CmdLf == <<47, 108, 102>>  \* '/lf'

CmdCf == <<47, 99, 102>>  \* '/cf'

PrefixF == <<47, 102, 32>>  \* '/f '

PrefixRf == <<47, 114, 102, 32>>  \* '/rf '

PrefixAt == <<65, 84, 43>>  \* 'AT+'

PrefixIcaoFilter == <<47, 102, 32, 105, 99, 97, 111, 61, 48, 120>>  \* '/f icao=0x'

Slash == <<47>>  \* '/'

\* get_tab_suggestions: common
\*   'MQTT'
\*   'mqtt'
\*   'Feed'
\*   'feed'
\*   'ERROR'
\*   'WARNING'
\*   'INFO'
\*   'Failed'
\*   'Skipped'
\*   'duplicate'
\*   'decode'
\*   'Aircraft'
\*   'protocol'
TabCommonPatterns ==
    <<
       <<77, 81, 84, 84>>,
       <<109, 113, 116, 116>>,
       <<70, 101, 101, 100>>,
       <<102, 101, 101, 100>>,
       <<69, 82, 82, 79, 82>>,
       <<87, 65, 82, 78, 73, 78, 71>>,
       <<73, 78, 70, 79>>,
       <<70, 97, 105, 108, 101, 100>>,
       <<83, 107, 105, 112, 112, 101, 100>>,
       <<100, 117, 112, 108, 105, 99, 97, 116, 101>>,
       <<100, 101, 99, 111, 100, 101>>,
       <<65, 105, 114, 99, 114, 97, 102, 116>>,
       <<112, 114, 111, 116, 111, 99, 111, 108>>
    >>

\* get_tab_suggestions: at_commands
\*   'FEED?'
\*   'FEEDPROTOCOL?'
\*   'FEEDPROTOCOL=0,MQTT'
\*   'FEEDEN?'
\*   'FEEDEN=0,1'
\*   'FEED=0,mqtt://broker.hivemq.com,1883,1,MQTT'
\*   'FEED=0,mqtt://test.mosquitto.org,1883,1,MQTT'
\*   'MQTTFMT?'
\*   'MQTTFMT=0,JSON'
\*   'MQTTFMT=0,BINARY'
\*   'LOG_LEVEL?'
\*   'LOG_LEVEL=INFO'
\*   'LOG_LEVEL=WARNINGS'
\*   'LOG_LEVEL=ERRORS'
\*   'NETWORK_INFO?'
\*   'SETTINGS?'
\*   'SETTINGS=SAVE'
\*   'REBOOT'
\*   'RX_ENABLE?'
TabAtCommands ==
    <<
       <<70, 69, 69, 68, 63>>,
       <<70, 69, 69, 68, 80, 82, 79, 84, 79, 67, 79, 76, 63>>,
       <<70, 69, 69, 68, 80, 82, 79, 84, 79, 67, 79, 76, 61, 48, 44, 77, 81, 84, 84>>,
       <<70, 69, 69, 68, 69, 78, 63>>,
       <<70, 69, 69, 68, 69, 78, 61, 48, 44, 49>>,
       <<70, 69, 69, 68, 61, 48, 44, 109, 113, 116, 116, 58, 47, 47, 98, 114, 111, 107, 101, 114, 46, 104, 105, 118, 101, 109, 113, 46, 99, 111, 109, 44, 49, 56, 56, 51, 44, 49, 44, 77, 81, 84, 84>>,
       <<70, 69, 69, 68, 61, 48, 44, 109, 113, 116, 116, 58, 47, 47, 116, 101, 115, 116, 46, 109, 111, 115, 113, 117, 105, 116, 116, 111, 46, 111, 114, 103, 44, 49, 56, 56, 51, 44, 49, 44, 77, 81, 84, 84>>,
       <<77, 81, 84, 84, 70, 77, 84, 63>>,
       <<77, 81, 84, 84, 70, 77, 84, 61, 48, 44, 74, 83, 79, 78>>,
       <<77, 81, 84, 84, 70, 77, 84, 61, 48, 44, 66, 73, 78, 65, 82, 89>>,
       <<76, 79, 71, 95, 76, 69, 86, 69, 76, 63>>,
       <<76, 79, 71, 95, 76, 69, 86, 69, 76, 61, 73, 78, 70, 79>>,
       <<76, 79, 71, 95, 76, 69, 86, 69, 76, 61, 87, 65, 82, 78, 73, 78, 71, 83>>,
       <<76, 79, 71, 95, 76, 69, 86, 69, 76, 61, 69, 82, 82, 79, 82, 83>>,
       <<78, 69, 84, 87, 79, 82, 75, 95, 73, 78, 70, 79, 63>>,
       <<83, 69, 84, 84, 73, 78, 71, 83, 63>>,
       <<83, 69, 84, 84, 73, 78, 71, 83, 61, 83, 65, 86, 69>>,
       <<82, 69, 66, 79, 79, 84>>,
       <<82, 88, 95, 69, 78, 65, 66, 76, 69, 63>>
    >>

\* get_tab_suggestions: commands
\*   '/f '
\*   '/rf '
\*   '/lf'
\*   '/cf'
TabLocalCommands ==
    <<
       <<47, 102, 32>>,
       <<47, 114, 102, 32>>,
       <<47, 108, 102>>,
       <<47, 99, 102>>
    >>

\* get_tab_suggestions: the suggestions for an empty input
\*   '/f '
\*   '/rf '
\*   '/lf'
\*   '/cf'
\*   'AT+'
TabStartingPoints ==
    <<
       <<47, 102, 32>>,
       <<47, 114, 102, 32>>,
       <<47, 108, 102>>,
       <<47, 99, 102>>,
       <<65, 84, 43>>
    >>

-----------------------------------------------------------------------------
(* The keyboard side: process_command, tab completion, history.            *)

\* str.isspace() for the code points below 256
IsSpace(c) == c \in {9, 10, 11, 12, 13, 28, 29, 30, 31, 32, 133, 160}

\* str.strip()
Strip(s) ==
    LET keep == {i \in 1..Len(s) : ~IsSpace(s[i])}
    IN  IF keep = {} THEN <<>>
        ELSE SubSeq(s, CHOOSE x \in keep : \A y \in keep : x <= y,
                       CHOOSE x \in keep : \A y \in keep : x >= y)

\* The least element of a non-empty set of numbers.
Least(S) == CHOOSE x \in S : \A y \in S : x <= y

\* str.split(maxsplit=1)
SplitMax1(s) ==
    LET keep == {i \in 1..Len(s) : ~IsSpace(s[i])}
    IN  IF keep = {} THEN <<>>
        ELSE LET a    == Least(keep)
                 gaps == {i \in a..Len(s) : IsSpace(s[i])}
             IN  IF gaps = {} THEN <<SubSeq(s, a, Len(s))>>
                 ELSE LET e    == Least(gaps)
                          more == {i \in keep : i > e}
                      IN  IF more = {} THEN <<SubSeq(s, a, e - 1)>>
                          ELSE <<SubSeq(s, a, e - 1), SubSeq(s, Least(more), Len(s))>>

\* ', '.join(list)
RECURSIVE JoinComma(_)
JoinComma(list) ==
    IF list = <<>> THEN <<>>
    ELSE IF Len(list) = 1 THEN list[1]
    ELSE list[1] \o MsgCommaSpace \o JoinComma(Tail(list))

\* `x in list`
InList(list, x) == \E i \in 1..Len(list) : list[i] = x

\* list.remove(x): the first occurrence goes
ListRemove(list, x) ==
    LET i == Least({k \in 1..Len(list) : list[k] = x})
    IN  SubSeq(list, 1, i - 1) \o SubSeq(list, i + 1, Len(list))

\* What a handler leaves behind: the monitor, the stats, the buffers it gave
\* to sock.send, the terminal, and whether it rebound self.filters.
Outcome(m, st, out, t, rebound) ==
    [mon |-> m, stats |-> st, out |-> out, tty |-> t, rebound |-> rebound]

\* add_to_log(message, prefix) inside a handler
Logged(k, message, prefix) ==
    [k EXCEPT !.mon = AddToLog(k.mon, message, prefix),
              !.tty = AddToLogTty(k.tty, k.mon, message, prefix)]

\* A variant of `/f` that leaves out a pattern that is already a filter.
AddFilter_Dedup(k, pattern) ==
    Logged(IF InList(k.mon.filters, pattern) THEN k
           ELSE [k EXCEPT !.mon.filters = Append(@, pattern)],
           MsgFilterAdded \o pattern, "SYS")

\* process_command: the `/f` branch with a pattern
AddFilter(k, pattern) ==
    Logged([k EXCEPT !.mon.filters = Append(@, pattern)],
           MsgFilterAdded \o pattern, "SYS")

\* A variant of `/rf` that drops the first filter when the pattern is not
\* in the list.
RemoveFilter_DropsFirst(k, pattern) ==
    IF InList(k.mon.filters, pattern)
    THEN Logged([k EXCEPT !.mon.filters = ListRemove(@, pattern)],
                MsgFilterRemoved \o pattern, "SYS")
    ELSE [k EXCEPT !.mon.filters = SubSeq(@, 2, Len(@))]

\* process_command: the `/rf` branch with a pattern
RemoveFilter(k, pattern) ==
    IF InList(k.mon.filters, pattern)
    THEN Logged([k EXCEPT !.mon.filters = ListRemove(@, pattern)],
                MsgFilterRemoved \o pattern, "SYS")
    ELSE k

\* process_command: the branch of a command that starts with '/'
LocalCommand(k, cmd) ==
    LET parts   == SplitMax1(cmd)
        command == ToLower(parts[1])
    IN  IF command = CmdF
        THEN IF Len(parts) > 1 THEN AddFilter(k, parts[2]) ELSE k
        ELSE IF command = CmdRf
        THEN IF Len(parts) > 1 THEN RemoveFilter(k, parts[2]) ELSE k
        ELSE IF command = CmdLf
        THEN IF k.mon.filters # <<>>
             THEN Logged(k, MsgFilters \o JoinComma(k.mon.filters), "SYS")
             ELSE Logged(k, MsgNoFilters, "SYS")
        ELSE IF command = CmdCf
        THEN Logged([k EXCEPT !.mon.filters = <<>>, !.rebound = TRUE],
                    MsgFiltersCleared, "SYS")
        ELSE Logged(k, MsgUnknownCommand \o command, "SYS")

\* A variant of the remote branch that sends the command as typed, with no
\* line terminator.
RemoteCommand_AsTyped(k, w, cmd) ==
    LET r == SendText(w, cmd)
    IN  IF r.ok
        THEN LET k1 == Logged([k EXCEPT !.out = @ \o r.out], MsgSent \o Strip(cmd), "TX")
             IN  [k1 EXCEPT !.stats.commands_sent = @ + 1]
        ELSE k

\* process_command: the branch that sends the command to the device
RemoteCommand(k, w, cmd) ==
    LET line == IF EndsWith(cmd, CrLf) THEN cmd ELSE cmd \o CrLf
        r    == SendText(w, line)
    IN  IF r.ok
        THEN LET k1 == Logged([k EXCEPT !.out = @ \o r.out], MsgSent \o Strip(line), "TX")
             IN  [k1 EXCEPT !.stats.commands_sent = @ + 1]
        ELSE k

\* A variant of process_command that sends every command to the device.
ProcessCommand_SlashToDevice(m, st, w, t, cmd) ==
    IF cmd = <<>> THEN Outcome(m, st, <<>>, t, FALSE)
    ELSE LET m1 == [m EXCEPT !.tab_suggestions = <<>>,
                             !.tab_index = -1,
                             !.command_history = DequeAppend(@, cmd, HistoryMaxLen),
                             !.history_index = -1]
         IN  RemoteCommand(Outcome(m1, st, <<>>, t, FALSE), w, cmd)

\* process_command(cmd)
ProcessCommand(m, st, w, t, cmd) ==
    IF cmd = <<>> THEN Outcome(m, st, <<>>, t, FALSE)
    ELSE LET m1 == [m EXCEPT !.tab_suggestions = <<>>,
                             !.tab_index = -1,
                             !.command_history = DequeAppend(@, cmd, HistoryMaxLen),
                             !.history_index = -1]
             k  == Outcome(m1, st, <<>>, t, FALSE)
         IN  IF StartsWith(cmd, Slash) THEN LocalCommand(k, cmd)
             ELSE RemoteCommand(k, w, cmd)

\* All orders in which a set can be listed.
Orderings(S) ==
    {f \in [1..Cardinality(S) -> S] : \A i, j \in 1..Cardinality(S) : f[i] = f[j] => i = j}

\* list[-n:]
LastN(list, n) == SubSeq(list, Max(1, Len(list) - n + 1), Len(list))

\* [head + x for x in list if keep(x)], for the lists of get_tab_suggestions
RECURSIVE PrefixedMatches(_, _, _, _)
PrefixedMatches(head, list, prefix, fold) ==
    IF list = <<>> THEN <<>>
    ELSE LET x   == Head(list)
             hit == \/ prefix = <<>>
                    \/ StartsWith(IF fold THEN ToLower(x) ELSE x, prefix)
         IN  (IF hit THEN <<head \o x>> ELSE <<>>)
                 \o PrefixedMatches(head, Tail(list), prefix, fold)

\* [cmd for cmd in commands if cmd.startswith(input_text)]
RECURSIVE StartingWith(_, _)
StartingWith(list, text) ==
    IF list = <<>> THEN <<>>
    ELSE (IF StartsWith(Head(list), text) THEN <<Head(list)>> ELSE <<>>)
             \o StartingWith(Tail(list), text)

\* get_tab_suggestions(input_text); icaos is list(self.stats['icao_addresses'])
GetTabSuggestions(input_text, filters, icaos) ==
    IF StartsWith(input_text, PrefixRf)
    THEN PrefixedMatches(PrefixRf, filters,
                         ToLower(Strip(SubSeq(input_text, 5, Len(input_text)))), TRUE)
    ELSE IF StartsWith(input_text, PrefixF)
    THEN LET prefix == ToLower(Strip(SubSeq(input_text, 4, Len(input_text))))
         IN  PrefixedMatches(PrefixF, TabCommonPatterns, prefix, TRUE)
                 \o PrefixedMatches(PrefixIcaoFilter, LastN(icaos, 10), prefix, FALSE)
    ELSE IF StartsWith(ToUpper(input_text), PrefixAt)
    THEN PrefixedMatches(PrefixAt, TabAtCommands,
                         ToUpper(SubSeq(input_text, 4, Len(input_text))), FALSE)
    ELSE IF StartsWith(input_text, Slash)
    THEN StartingWith(TabLocalCommands, input_text)
    ELSE IF input_text = <<>>
    THEN TabStartingPoints
    ELSE <<>>

\* handle_tab_completion(); a ZeroDivisionError leaves the monitor as it was
HandleTabCompletion(m, suggestions) ==
    IF m.tab_completion_index = -1
    THEN IF suggestions = <<>>
         THEN [m EXCEPT !.tab_suggestions = <<>>]
         ELSE [m EXCEPT !.tab_suggestions = suggestions,
                        !.tab_completion_index = 0,
                        !.input_buffer = suggestions[1]]
    ELSE IF m.tab_suggestions = <<>> THEN m
    ELSE LET i == (m.tab_completion_index + 1) % Len(m.tab_suggestions)
         IN  [m EXCEPT !.tab_completion_index = i,
                       !.input_buffer = m.tab_suggestions[i + 1]]

\* A variant of the up arrow that walks the history oldest entry first.
HistoryUp_OldestFirst(m) ==
    IF m.command_history # <<>> /\ m.history_index < Len(m.command_history) - 1
    THEN [m EXCEPT !.history_index = @ + 1,
                   !.input_buffer = m.command_history[m.history_index + 2]]
    ELSE m

\* input_thread: the up arrow
HistoryUp(m) ==
    IF m.command_history # <<>> /\ m.history_index < Len(m.command_history) - 1
    THEN [m EXCEPT !.history_index = @ + 1,
                   !.input_buffer = m.command_history[Len(m.command_history) - (m.history_index + 1)]]
    ELSE m

\* A variant of the down arrow that empties the buffer when no recalled
\* entry is showing.
HistoryDown_ClearsAtNewest(m) ==
    IF m.history_index > -1
    THEN IF m.history_index - 1 = -1
         THEN [m EXCEPT !.history_index = -1, !.input_buffer = <<>>]
         ELSE [m EXCEPT !.history_index = @ - 1,
                        !.input_buffer = m.command_history[Len(m.command_history) - (m.history_index - 1)]]
    ELSE [m EXCEPT !.input_buffer = <<>>]

\* input_thread: the down arrow
HistoryDown(m) ==
    IF m.history_index > -1
    THEN IF m.history_index - 1 = -1
         THEN [m EXCEPT !.history_index = -1, !.input_buffer = <<>>]
         ELSE [m EXCEPT !.history_index = @ - 1,
                        !.input_buffer = m.command_history[Len(m.command_history) - (m.history_index - 1)]]
    ELSE m

-----------------------------------------------------------------------------
(* The display decision, one step per turn of its loop.  The iterator of   *)
(* `for f in self.filters` walks the list object it was created on: it     *)
(* sees in-place changes (append, remove) and keeps the old list when      *)
(* self.filters is rebound (it_live = FALSE, it_list = the old list).      *)

\* The list the iterator of should_display walks.
ScanList == IF rt.it_live THEN mon.filters ELSE rt.it_list

\* should_display(line): the tests before the loop
ShouldDisplayEnter ==
    /\ rt.pc = "display"
    /\ rt' = IF DisplayEntry(mon) = "show"
             THEN [rt EXCEPT !.pc = "log", !.shown = "yes"]
             ELSE [rt EXCEPT !.pc = "scan", !.it_idx = 0, !.it_live = TRUE,
                             !.it_list = <<>>, !.entered = mon.filters]
    /\ UNCHANGED <<ws, hs, wire, peer_closed, sent, mon, stats, mt, stdin, tty, rx, env>>

\* should_display(line): one turn of the loop, or its end
ShouldDisplayScan ==
    /\ rt.pc = "scan"
    /\ LET r == ScanStep(ScanList, rt.it_idx, rt.line, stats)
       IN  /\ stats' = r.stats
           /\ rt' = IF ~r.done THEN [rt EXCEPT !.it_idx = r.idx]
                    ELSE IF r.ret
                    THEN [rt EXCEPT !.pc = "log", !.shown = "yes", !.it_idx = r.idx,
                                    !.entered = <<>>]
                    ELSE [rt EXCEPT !.pc = "line", !.shown = "no", !.it_idx = r.idx,
                                    !.entered = <<>>]
    /\ UNCHANGED <<ws, hs, wire, peer_closed, sent, mon, mt, stdin, tty, rx, env>>

-----------------------------------------------------------------------------
(* The socket loop: receive_thread, one step per statement that touches    *)
(* shared state.  The thread is a daemon: it stops with the process.       *)

\* The socket loop's thread exists and the process has not exited.
ReceiveThreadAlive == mt.pc # "done"

\* What rx keeps of a receive() call that read from the socket.
RxSeen(r) ==
    IF r.opcode = -1 /\ r.result = "empty" THEN rx
    ELSE [result |-> r.result, payload |-> r.payload, opcode |-> r.opcode]

\* `while self.running and self.ws.connected: msg = self.ws.receive(...)`
\* and the dispatch on msg
RecvLoop ==
    /\ ReceiveThreadAlive
    /\ rt.pc = "loop"
    /\ IF ~(mon.running /\ ws.connected)
       THEN /\ rt' = [rt EXCEPT !.pc = "exit"]
            /\ UNCHANGED <<ws, wire, sent, mon, tty, rx>>
       ELSE LET r == Receive(ws, wire, peer_closed)
            IN  /\ ws' = [ws EXCEPT !.connected = r.connected]
                /\ wire' = r.wire
                /\ sent' = sent \o r.out
                /\ rx' = RxSeen(r)
                /\ IF r.result = "none"
                   THEN /\ mon' = AddToLog(mon, MsgConnectionClosed, "ERR")
                        /\ tty' = AddToLogTty(tty, mon, MsgConnectionClosed, "ERR")
                        /\ rt' = [rt EXCEPT !.pc = "exit"]
                   ELSE /\ UNCHANGED <<mon, tty>>
                        /\ rt' = IF r.result = "text" /\ r.text # <<>>
                                 THEN [rt EXCEPT !.pc = "line", !.lines = SplitLines(r.text)]
                                 ELSE rt
    /\ UNCHANGED <<hs, peer_closed, stats, mt, stdin, env>>

\* `for line in msg.split('\n')`: the next line, update_stats on it
RecvLine ==
    /\ ReceiveThreadAlive
    /\ rt.pc = "line"
    /\ IF rt.lines = <<>>
       THEN /\ rt' = [rt EXCEPT !.pc = "loop"]
            /\ UNCHANGED stats
       ELSE LET line == StripCrLf(Head(rt.lines))
            IN  IF line = <<>>
                THEN /\ rt' = [rt EXCEPT !.lines = Tail(@)]
                     /\ UNCHANGED stats
                ELSE /\ stats' = UpdateStats(stats, line)
                     /\ rt' = [rt EXCEPT !.lines = Tail(@), !.line = line,
                                         !.pc = "display", !.shown = "none",
                                         !.seen = Append(@, line)]
    /\ UNCHANGED <<ws, hs, wire, peer_closed, sent, mon, mt, stdin, tty, rx, env>>

\* `prefix = self.get_message_prefix(line); self.add_to_log(line, prefix)`
RecvLog ==
    /\ ReceiveThreadAlive
    /\ rt.pc = "log"
    /\ mon' = AddToLog(mon, rt.line, MessagePrefix(rt.line))
    /\ tty' = AddToLogTty(tty, mon, rt.line, MessagePrefix(rt.line))
    /\ rt' = [rt EXCEPT !.pc = "line"]
    /\ UNCHANGED <<ws, hs, wire, peer_closed, sent, stats, mt, stdin, rx, env>>

\* An exception inside the socket loop - the write to the session log
\* fails, or the print of add_to_log does: nothing catches it, the thread
\* ends.
RecvFault ==
    /\ ReceiveThreadAlive
    /\ rt.pc \in {"display", "log"}
    /\ rt' = [rt EXCEPT !.pc = "dead"]
    /\ UNCHANGED <<ws, hs, wire, peer_closed, sent, mon, stats, mt, stdin, tty, rx, env>>

-----------------------------------------------------------------------------
(* run(): connect, set up, start the socket loop, run the keyboard loop,   *)
(* tear down.                                                              *)

HandshakeTerminator == <<13, 10, 13, 10>>  \* '\r\n\r\n'

HandshakeToken == <<49, 48, 49, 32, 83, 119, 105, 116, 99, 104, 105, 110, 103, 32, 80, 114, 111, 116, 111, 99, 111, 108, 115>>  \* '101 Switching Protocols'

\* self.sock.recv(1024)
RecvChunkMax == 1024

\* connect(): socket(), connect((host, port)), send the handshake request
RunConnect ==
    /\ mt.pc = "connect"
    /\ ws' = [ws EXCEPT !.sock = "open"]
    /\ mt' = IF hs.refused THEN [mt EXCEPT !.pc = "finally", !.error = TRUE]
             ELSE [mt EXCEPT !.pc = "handshake"]
    /\ UNCHANGED <<hs, wire, peer_closed, sent, mon, stats, rt, stdin, tty, rx, env>>

\* `b"101 Switching Protocols" in response`
HandshakeAccepted(response) == Contains(response, HandshakeToken)

\* connect(): one `chunk = self.sock.recv(1024)` of the response loop and,
\* once the terminator is in, the test of the response
RunHandshakeRecv ==
    /\ mt.pc = "handshake"
    /\ IF hs.pending = <<>>
       THEN /\ mt' = [mt EXCEPT !.pc = "finally", !.error = TRUE]
            /\ UNCHANGED <<ws, hs, wire>>
       ELSE \E n \in 1..Min(RecvChunkMax, Len(hs.pending)) :
              LET response == hs.response \o SubSeq(hs.pending, 1, n)
                  rest     == SubSeq(hs.pending, n + 1, Len(hs.pending))
              IN  IF ~Contains(response, HandshakeTerminator)
                  THEN /\ hs' = [hs EXCEPT !.pending = rest, !.response = response]
                       /\ UNCHANGED <<ws, wire, mt>>
                  ELSE IF HandshakeAccepted(response)
                  THEN /\ ws' = [ws EXCEPT !.connected = TRUE]
                       /\ hs' = [hs EXCEPT !.pending = <<>>, !.response = response]
                       /\ wire' = rest \o wire
                       /\ mt' = [mt EXCEPT !.pc = "setup"]
                  ELSE /\ hs' = [hs EXCEPT !.pending = rest, !.response = response]
                       /\ mt' = [mt EXCEPT !.pc = "finally", !.error = TRUE]
                       /\ UNCHANGED <<ws, wire>>
    /\ UNCHANGED <<peer_closed, sent, mon, stats, rt, stdin, tty, rx, env>>

\* setup_terminal(): save the terminal's settings, switch to raw mode
SetupTerminal(k) ==
    [k EXCEPT !.mon.old_settings = k.tty.mode, !.tty.mode = "raw",
              !.tty.screen = "layout"]

\* run(): the optional AT+LOG_LEVEL command; level is <<>> when none is asked
InitialLogLevel(k, w, level) ==
    IF level = <<>> THEN k
    ELSE Logged([k EXCEPT !.out = @ \o SendText(w, CmdLogLevel \o level \o CrLf).out],
                MsgSettingLogLevel \o level, "SYS")

\* run() from setup_terminal() to the start of the socket loop's thread
Setup(m, st, w, t, level) ==
    Logged(Logged(Logged(InitialLogLevel(SetupTerminal(Outcome(m, st, <<>>, t, FALSE)),
                                         w, level),
                         MsgConnectedTo \o Host \o MsgConsolePath, "SYS"),
                  MsgPressF1, "SYS"),
           MsgTip, "TIP")

RunSetup ==
    /\ mt.pc = "setup"
    /\ LET k == Setup(mon, stats, ws, tty, mt.initial_log_level)
       IN  /\ mon' = k.mon
           /\ tty' = k.tty
           /\ sent' = sent \o k.out
    /\ rt' = [rt EXCEPT !.pc = "loop"]
    /\ mt' = [mt EXCEPT !.pc = "input"]
    /\ UNCHANGED <<ws, hs, wire, peer_closed, stats, stdin, rx, env>>

\* restore_terminal(): tcsetattr of the saved settings; with none saved the
\* AttributeError is swallowed
RestoreTerminal(t, m) ==
    IF m.old_settings = "unset" THEN [t EXCEPT !.screen = "shell"]
    ELSE [t EXCEPT !.screen = "shell", !.mode = m.old_settings]

\* run(): the finally block
RunFinally ==
    /\ mt.pc = "finally"
    /\ tty' = RestoreTerminal(tty, mon)
    /\ mon' = [mon EXCEPT !.log_handle = IF @ = "open" THEN "closed" ELSE @]
    /\ ws' = Close(ws).ws
    /\ sent' = sent \o Close(ws).out
    /\ mt' = [mt EXCEPT !.pc = "done", !.teardowns = @ + 1,
                        !.final_stats = <<stats>>]
    /\ UNCHANGED <<hs, wire, peer_closed, stats, rt, stdin, rx, env>>

-----------------------------------------------------------------------------
(* The keyboard loop: input_thread, one action per key.  A handler runs to *)
(* its end before the next key is read; an exception inside it is          *)
(* swallowed by the loop's `except`.                                       *)

\* `while self.running:` is at a key: char = sys.stdin.read(1) returned it
KeyIs(codes) ==
    /\ mt.pc = "input"
    /\ mon.running
    /\ stdin # <<>>
    /\ Head(stdin) \in codes

\* The handler's outcome k becomes the state; n keys were read; raised
\* tells whether the handler ended in an exception, which `except:` swallows.
KeyHandled(k, n, raised) ==
    /\ mon' = k.mon
    /\ stats' = k.stats
    /\ sent' = sent \o k.out
    /\ tty' = k.tty
    /\ rt' = IF k.rebound /\ rt.pc = "scan" /\ rt.it_live
             THEN [rt EXCEPT !.it_live = FALSE, !.it_list = mon.filters]
             ELSE rt
    /\ stdin' = SubSeq(stdin, n + 1, Len(stdin))
    /\ mt' = [mt EXCEPT !.swallowed = @ \/ raised]
    /\ UNCHANGED <<ws, hs, wire, peer_closed, rx, env>>

KeyDone(k, n) == KeyHandled(k, n, FALSE)

\* The state as a handler finds it.
Here == Outcome(mon, stats, <<>>, tty, FALSE)

\* Enter: process_command(self.input_buffer); self.input_buffer = ""
HandleEnter(m, st, w, t) ==
    [ProcessCommand(m, st, w, t, m.input_buffer) EXCEPT !.mon.input_buffer = <<>>]

KeyEnter ==
    /\ KeyIs({13})
    /\ KeyDone(HandleEnter(mon, stats, ws, tty), 1)

\* Backspace
HandleBackspace(m) ==
    IF m.input_buffer # <<>>
    THEN [m EXCEPT !.input_buffer = SubSeq(@, 1, Len(@) - 1),
                   !.tab_suggestions = <<>>,
                   !.tab_index = -1]
    ELSE m

KeyBackspace ==
    /\ KeyIs({127, 8})
    /\ KeyDone([Here EXCEPT !.mon = HandleBackspace(mon)], 1)

\* Variant of KeyCtrlC without the `break`: the flag goes down, the loop
\* goes on to the next key.
KeyCtrlC_KeepsReading ==
    /\ KeyIs({3})
    /\ mon' = [mon EXCEPT !.running = FALSE]
    /\ stdin' = Tail(stdin)
    /\ UNCHANGED <<ws, hs, wire, peer_closed, sent, stats, rt, mt, tty, rx, env>>

\* Ctrl+C: self.running = False; break
KeyCtrlC ==
    /\ KeyIs({3})
    /\ mon' = [mon EXCEPT !.running = FALSE]
    /\ mt' = [mt EXCEPT !.pc = "finally"]
    /\ stdin' = Tail(stdin)
    /\ UNCHANGED <<ws, hs, wire, peer_closed, sent, stats, rt, tty, rx, env>>

\* A variant of Ctrl+L that clears the statistics with the scrollback.
KeyCtrlL_ResetsStats ==
    /\ KeyIs({12})
    /\ KeyDone([Here EXCEPT !.mon.display_buffer = <<>>, !.stats = NewStats], 1)

\* Ctrl+L: self.display_buffer.clear()
KeyCtrlL ==
    /\ KeyIs({12})
    /\ KeyDone([Here EXCEPT !.mon.display_buffer = <<>>], 1)

\* Ctrl+P: pause
KeyCtrlP ==
    /\ KeyIs({16})
    /\ KeyDone([Here EXCEPT !.mon.paused = ~@], 1)

\* Ctrl+D: debug mode
KeyCtrlD ==
    /\ KeyIs({4})
    /\ KeyDone([Here EXCEPT !.mon.debug_mode = ~@], 1)

\* Ctrl+X: toggle decoding, when there is a decoder
HandleCtrlX(k) ==
    IF k.mon.decoder
    THEN LET k1 == [k EXCEPT !.mon.decode_mode = ~@]
         IN  Logged(k1, IF k1.mon.decode_mode THEN MsgDecodingEnabled
                        ELSE MsgDecodingDisabled, "SYS")
    ELSE k

KeyCtrlX ==
    /\ KeyIs({24})
    /\ KeyDone(HandleCtrlX(Here), 1)

\* What follows ESC: next1 = sys.stdin.read(1) and, after 'O' or '[',
\* next2 = sys.stdin.read(1); a read with nothing typed returns nothing.
EscapeSequence(keys) ==
    LET next1 == IF Len(keys) >= 2 THEN keys[2] ELSE -1
        next2 == IF Len(keys) >= 3 THEN keys[3] ELSE -1
        two   == next1 = 79 \/ next1 = 91
    IN  [kind |-> IF next1 = 79 /\ next2 = 80 THEN "F1"
                  ELSE IF next1 = 79 /\ next2 = 81 THEN "F2"
                  ELSE IF next1 = 91 /\ next2 = 65 THEN "up"
                  ELSE IF next1 = 91 /\ next2 = 66 THEN "down"
                  ELSE "other",
         used |-> IF two THEN Min(3, Len(keys)) ELSE Min(2, Len(keys))]

\* show_help(): the help box is drawn over the log area
ShowHelp(k) == [k EXCEPT !.tty.screen = "help"]

\* show_statistics(): the statistics box is drawn over the log area
ShowStatistics(k) == [k EXCEPT !.tty.screen = "stats"]

\* F1 and `?` on an empty line: the help overlay
ToggleHelp(k) ==
    LET k1 == [k EXCEPT !.mon.show_help_overlay = ~@]
    IN  IF k1.mon.show_help_overlay THEN ShowHelp(k1) ELSE SetupTerminal(k1)

\* F2: the statistics overlay
ToggleStats(k) ==
    LET k1 == [k EXCEPT !.mon.show_stats_overlay = ~@]
    IN  IF k1.mon.show_stats_overlay THEN ShowStatistics(k1) ELSE SetupTerminal(k1)

KeyF1 ==
    /\ KeyIs({27})
    /\ EscapeSequence(stdin).kind = "F1"
    /\ KeyDone(ToggleHelp(Here), EscapeSequence(stdin).used)

KeyF2 ==
    /\ KeyIs({27})
    /\ EscapeSequence(stdin).kind = "F2"
    /\ KeyDone(ToggleStats(Here), EscapeSequence(stdin).used)

KeyUp ==
    /\ KeyIs({27})
    /\ EscapeSequence(stdin).kind = "up"
    /\ KeyDone([Here EXCEPT !.mon = HistoryUp(mon)], EscapeSequence(stdin).used)

KeyDown ==
    /\ KeyIs({27})
    /\ EscapeSequence(stdin).kind = "down"
    /\ KeyDone([Here EXCEPT !.mon = HistoryDown(mon)], EscapeSequence(stdin).used)

\* ESC followed by anything else: the keys read are dropped
KeyEscOther ==
    /\ KeyIs({27})
    /\ EscapeSequence(stdin).kind = "other"
    /\ KeyDone(Here, EscapeSequence(stdin).used)

\* handle_tab_completion() divides by len(self.tab_suggestions): with a
\* cursor set and the list emptied it raises ZeroDivisionError.
TabRaises(m) == m.tab_completion_index # -1 /\ m.tab_suggestions = <<>>

\* Tab: list(self.stats['icao_addresses']) comes in the set's own order
KeyTab ==
    /\ KeyIs({9})
    /\ \E icaos \in Orderings(stats.icao_addresses) :
          KeyHandled([Here EXCEPT !.mon =
                        HandleTabCompletion(mon, GetTabSuggestions(mon.input_buffer,
                                                                   mon.filters, icaos))],
                     1, TabRaises(mon))

\* `?` on an empty line
KeyQuestion ==
    /\ KeyIs({63})
    /\ mon.input_buffer = <<>>
    /\ KeyDone(ToggleHelp(Here), 1)

\* A printable character
HandlePrintable(m, char) ==
    [m EXCEPT !.input_buffer = Append(@, char),
              !.tab_completion_index = -1,
              !.tab_suggestions = <<>>,
              !.tab_index = -1]

KeyPrintable ==
    /\ KeyIs(32..126)
    /\ ~(Head(stdin) = 63 /\ mon.input_buffer = <<>>)
    /\ KeyDone([Here EXCEPT !.mon = HandlePrintable(mon, Head(stdin))], 1)

\* Any other character is read and ignored.
KeyIgnored ==
    /\ KeyIs((0..255) \ ((32..127) \cup {13, 8, 3, 12, 16, 4, 24, 27, 9}))
    /\ KeyDone(Here, 1)

-----------------------------------------------------------------------------
(* SpecDisplay: should_display as a function of the line, the filter list  *)
(* and the debug flag, called by the socket loop with no key pressed       *)
(* meanwhile.                                                              *)

LineDup == <<100, 117, 112, 108, 105, 99, 97, 116, 101, 32, 112, 97, 99, 107, 101, 116, 32, 100, 101, 116, 101, 99, 116, 101, 100, 32, 105, 99, 97, 111, 61, 48, 120, 65, 65, 55, 70, 48, 51>>  \* 'duplicate packet detected icao=0xAA7F03'

LineDecodeFail == <<85, 110, 97, 98, 108, 101, 32, 116, 111, 32, 100, 101, 99, 111, 100, 101, 32, 73, 67, 65, 79, 32, 48, 120, 97, 98, 49, 50>>  \* 'Unable to decode ICAO 0xab12'

LineBitMqtt == <<67, 111, 114, 114, 101, 99, 116, 101, 100, 32, 49, 32, 98, 105, 116, 32, 101, 114, 114, 111, 114, 32, 77, 81, 84, 84, 32, 105, 99, 97, 111, 61, 48, 120, 97, 97, 55, 102, 48, 51>>  \* 'Corrected 1 bit error MQTT icao=0xaa7f03'

LineTwoIds == <<105, 99, 97, 111, 61, 48, 120, 49, 70, 32, 102, 101, 101, 100, 32, 73, 67, 65, 79, 61, 48, 120, 49, 102, 32, 105, 99, 97, 111, 61, 48, 120, 98, 50>>  \* 'icao=0x1F feed ICAO=0x1f icao=0xb2'

LinePlain == <<104, 101, 108, 108, 111>>  \* 'hello'

FiltMqttUpper == <<77, 81, 84, 84>>  \* 'MQTT'

FiltIcao == <<105, 99, 97, 111>>  \* 'icao'

FiltHell == <<72, 69, 76, 76>>  \* 'HELL'

FiltZz == <<122, 122>>  \* 'zz'

\* The longest filter list SpecDisplay draws.
MaxFilters == 2

DisplayLines == {LineDup, LineBitMqtt, LineTwoIds, LinePlain}

FilterPool == {FiltMqttUpper, FiltIcao, FiltHell, FiltZz}

\* All sequences over S of length at most n.
SeqsUpTo(S, n) == UNION {[1..k -> S] : k \in 0..n}

InitDisplay ==
    /\ \E fl \in SeqsUpTo(FilterPool, MaxFilters), dbg \in BOOLEAN, ln \in DisplayLines :
          /\ mon = [NewMonitor(fl, TRUE, FALSE) EXCEPT !.debug_mode = dbg]
          /\ rt = [NewReceiveThread EXCEPT !.pc = "display", !.line = ln,
                                              !.seen = <<ln>>]
          /\ stats = UpdateStats(NewStats, ln)
    /\ ws = [sock |-> "open", connected |-> TRUE]
    /\ hs = NoHandshake
    /\ wire = <<>>
    /\ peer_closed = FALSE
    /\ sent = <<>>
    /\ mt = [NewMainThread(<<>>) EXCEPT !.pc = "input"]
    /\ stdin = <<>>
    /\ tty = [NewTty EXCEPT !.mode = "raw"]
    /\ rx = NewRx
    /\ env = NewEnv

NextDisplay == ShouldDisplayEnter \/ ShouldDisplayScan

SpecDisplay == InitDisplay /\ [][NextDisplay]_vars

\* Two code points that are equal or differ only in letter case.
SameLetter(a, b) ==
    \/ a = b
    \/ (a >= 65 /\ a <= 90 /\ b = a + 32)
    \/ (b >= 65 /\ b <= 90 /\ a = b + 32)

\* f occurs in line, letter case ignored.
OccursIgnoringCase(f, line) ==
    \E i \in 1..(Len(line) - Len(f) + 1) :
        \A k \in 1..Len(f) : SameLetter(line[i + k - 1], f[k])

\* The display decision the claims state.
DisplayExpected(line) ==
    \/ mon.debug_mode
    \/ mon.filters = <<>>
    \/ \E k \in 1..Len(mon.filters) : OccursIgnoringCase(mon.filters[k], line)

\* should_display(line) has returned.
DisplayDecided == rt.shown # "none"

\* C1: should_display(line) is true iff debug mode is on, or the filter list
\* is empty, or some filter is a case-insensitive substring of the line.
C1_DisplayIff ==
    DisplayDecided => ((rt.shown = "yes") <=> DisplayExpected(rt.line))

\* C1 witness: a line was shown by a filter that matches only when letter
\* case is ignored, with debug mode off.
C1_Witness ==
    /\ rt.shown = "yes"
    /\ ~mon.debug_mode
    /\ mon.filters # <<>>
    /\ \A k \in 1..Len(mon.filters) : ~Contains(rt.line, mon.filters[k])

\* C2: one display decision adds exactly 1 to the filtered counter when debug
\* mode is off, the filter list is non-empty and some filter matches, however
\* many do, and adds nothing in every other case.
C2_FilteredByOne ==
    DisplayDecided =>
        stats.filtered_messages =
            Bump(/\ ~mon.debug_mode
                 /\ mon.filters # <<>>
                 /\ \E k \in 1..Len(mon.filters) :
                       OccursIgnoringCase(mon.filters[k], rt.line))

\* C2 witness: a decision on a line that two filters match counted once.
C2_Witness ==
    /\ DisplayDecided
    /\ stats.filtered_messages = 1
    /\ Cardinality({k \in 1..Len(mon.filters) :
                       OccursIgnoringCase(mon.filters[k], rt.line)}) = 2

-----------------------------------------------------------------------------
(* The operator and the server.  The operator types the next key or key    *)
(* sequence once the keyboard loop has read the last one; the server sends *)
(* its next frame once the socket loop has read the last one.              *)

HandshakeOk == <<72, 84, 84, 80, 47, 49, 46, 49, 32, 49, 48, 49, 32, 83, 119, 105, 116, 99, 104, 105, 110, 103, 32, 80, 114, 111, 116, 111, 99, 111, 108, 115, 13, 10, 13, 10>>  \* 'HTTP/1.1 101 Switching Protocols\r\n\r\n'

KeysAddZz == <<47, 102, 32, 122, 122, 13>>  \* '/f zz\r'

KeysRemoveZz == <<47, 114, 102, 32, 122, 122, 13>>  \* '/rf zz\r'

KeysClear == <<47, 99, 102, 13>>  \* '/cf\r'

KeysList == <<47, 108, 102, 13>>  \* '/lf\r'

KeysUnknown == <<47, 120, 13>>  \* '/x\r'

KeysAt == <<65, 84, 13>>  \* 'AT\r'

KeysF1 == <<27, 79, 80>>  \* '\x1bOP'

KeysF2 == <<27, 79, 81>>  \* '\x1bOQ'

KeysUp == <<27, 91, 65>>  \* '\x1b[A'

KeysDown == <<27, 91, 66>>  \* '\x1b[B'

KeysEscX == <<27, 120>>  \* '\x1bx'

\* What the operator types in one go: a command, a command recalled from
\* the history and sent again, an overlay opened and closed, a toggle, a
\* completion.
KeyTokens ==
    {KeysAddZz, KeysRemoveZz, KeysClear, KeysList, KeysUnknown,
     KeysAt \o KeysUp \o KeysDown \o KeysUp \o <<13>>,
     KeysF1 \o KeysF1, KeysF2 \o KeysF2, <<63, 63>>, KeysEscX,
     <<16>>, <<4>>, <<24>>, <<12>>, <<0>>,
     <<9, 9, 127, 9>>}

\* A frame as the server builds it: mask is <<>> for an unmasked frame.
PeerFrame(fin, opcode, mask, payload) ==
    LET n  == Len(payload)
        mb == IF mask = <<>> THEN 0 ELSE 128
    IN  <<(IF fin THEN 128 ELSE 0) + opcode>>
        \o (IF n <= 125 THEN <<mb + n>>
            ELSE IF n <= 65535 THEN <<mb + 126>> \o PackH(n)
            ELSE <<mb + 127>> \o PackQ(n))
        \o mask
        \o (IF mask = <<>> THEN payload ELSE XorMask(payload, mask))

\* What the server sends: a frame, the last `cut` bytes of which never come.
Message(opcode, mask, payload, cut) ==
    [fin |-> TRUE, opcode |-> opcode, mask |-> mask, payload |-> payload, cut |-> cut]

\* The bytes of message m that reach the socket.
PeerWire(m) ==
    LET frame == PeerFrame(m.fin, m.opcode, m.mask, m.payload)
    IN  SubSeq(frame, 1, Len(frame) - m.cut)

\* Two console messages: two lines, and three lines after an empty one.
TextDupBit == LineDup \o <<13, 10>> \o LineBitMqtt

TextIdsPlain == LineTwoIds \o <<10, 10>> \o LinePlain \o <<10>> \o LineDecodeFail

PingPayload == <<104, 105>>  \* b'hi'

\* A mask key of the server's.
PeerMask == <<1, 130, 67, 255>>

\* The frames the server sends.
ServerMessages ==
    {Message(1, <<>>, Utf8Encode(TextDupBit), 0),
     Message(1, <<>>, Utf8Encode(TextIdsPlain), 0),
     Message(9, PeerMask, PingPayload, 0),
     Message(8, <<>>, <<>>, 0)}

\* The filter lists the monitor is started with (--filter).
InitialFilters == {<<>>, <<FiltMqttUpper, FiltZz>>, <<FiltZz, FiltMqttUpper>>}

\* How many times the operator types.
MaxTokens == 1

\* How many frames the server sends.
MaxFrames == 2

\* The operator types one of `tokens`.
Types(tokens) ==
    /\ mt.pc = "input"
    /\ mon.running
    /\ stdin = <<>>
    /\ env.typed < MaxTokens
    /\ \E keys \in tokens : stdin' = keys
    /\ env' = [env EXCEPT !.typed = @ + 1]
    /\ UNCHANGED <<ws, hs, wire, peer_closed, sent, mon, stats, rt, mt, tty, rx>>

OperatorTypes == Types(KeyTokens)

ServerSends ==
    /\ mt.pc = "input"
    /\ ~peer_closed
    /\ wire = <<>>
    /\ env.frames < MaxFrames
    /\ \E m \in ServerMessages :
          /\ wire' = PeerWire(m)
          /\ env' = [env EXCEPT !.frames = @ + 1, !.served = m]
    /\ UNCHANGED <<ws, hs, peer_closed, sent, mon, stats, rt, mt, stdin, tty, rx>>

\* The operator presses Ctrl+C.
OperatorInterrupts ==
    /\ mt.pc = "input"
    /\ mon.running
    /\ stdin = <<>>
    /\ stdin' = <<3>>
    /\ UNCHANGED <<ws, hs, wire, peer_closed, sent, mon, stats, rt, mt, tty, rx, env>>

\* The server closes the connection.
ServerCloses ==
    /\ mt.pc = "input"
    /\ ~peer_closed
    /\ peer_closed' = TRUE
    /\ UNCHANGED <<ws, hs, wire, sent, mon, stats, rt, mt, stdin, tty, rx, env>>

-----------------------------------------------------------------------------
(* Spec: the whole program, from construction to the end of run().         *)

Init ==
    /\ ws = NewWebSocket
    /\ hs = [refused |-> FALSE, pending |-> HandshakeOk, response |-> <<>>]
    /\ wire = <<>>
    /\ peer_closed = FALSE
    /\ sent = <<>>
    /\ \E fl \in InitialFilters : mon = NewMonitor(fl, TRUE, FALSE)
    /\ stats = NewStats
    /\ rt = NewReceiveThread
    /\ mt = NewMainThread(<<>>)
    /\ stdin = <<>>
    /\ tty = NewTty
    /\ rx = NewRx
    /\ env = NewEnv

Next ==
    \/ RunConnect \/ RunHandshakeRecv \/ RunSetup \/ RunFinally
    \/ RecvLoop \/ RecvLine \/ ShouldDisplayEnter \/ ShouldDisplayScan \/ RecvLog
    \/ KeyEnter \/ KeyBackspace \/ KeyCtrlC \/ KeyCtrlL \/ KeyCtrlP \/ KeyCtrlD
    \/ KeyCtrlX \/ KeyF1 \/ KeyF2 \/ KeyUp \/ KeyDown \/ KeyEscOther \/ KeyTab
    \/ KeyQuestion \/ KeyPrintable \/ KeyIgnored
    \/ OperatorTypes \/ OperatorInterrupts \/ ServerSends \/ ServerCloses

Spec == Init /\ [][Next]_vars

\* The identifiers of a line as the claims state them: what follows each
\* occurrence of 'icao=0x', letter case ignored, up to the last hexadecimal
\* digit in a row, lower-cased.
IdentifiersOf(line) ==
    LET n == Len(line)
        Digit(c) == \/ (c >= 48 /\ c <= 57)
                    \/ (c >= 65 /\ c <= 70)
                    \/ (c >= 97 /\ c <= 102)
        starts == {i \in 1..(n - 7) :
                      \A k \in 1..7 : SameLetter(line[i + k - 1], LitIcaoEq[k])}
        Ends(i) == {j \in (i + 7)..n :
                       /\ \A k \in (i + 7)..j : Digit(line[k])
                       /\ (j = n \/ ~Digit(line[j + 1]))}
    IN  UNION {{ToLower(SubSeq(line, i + 7, j)) : j \in Ends(i)} : i \in starts}

\* The socket loop takes the step that hands a line to update_stats.
LineProcessed == rt.pc = "line" /\ rt'.pc = "display"

\* C3: across every interleaving of incoming lines and keystrokes no
\* statistics counter ever decreases and the identifier set never loses an
\* element.
C3_CountersKept ==
    [][/\ stats'.total_messages >= stats.total_messages
       /\ stats'.filtered_messages >= stats.filtered_messages
       /\ stats'.duplicates >= stats.duplicates
       /\ stats'.decode_failures >= stats.decode_failures
       /\ stats'.bit_errors >= stats.bit_errors
       /\ stats'.mqtt_messages >= stats.mqtt_messages
       /\ stats'.commands_sent >= stats.commands_sent
       /\ stats.icao_addresses \subseteq stats'.icao_addresses]_vars

\* C3 witness: lines were counted and an identifier stored, and the operator
\* then cleared the screen.
C3_Witness ==
    /\ stats.total_messages >= 2
    /\ stats.icao_addresses # {}
    /\ env.typed = 1
    /\ stdin = <<>>
    /\ mon.display_buffer = <<>>

\* C4: one non-empty incoming line adds exactly 1 to the total and, to each
\* of the four pattern counters, 1 if its pattern matches the line and 0 if
\* not, each test on its own, whatever the filters, the debug, pause and
\* overlay flags are.
C4_LineCounts ==
    [][LineProcessed =>
          /\ stats'.total_messages = stats.total_messages + 1
          /\ stats'.duplicates = stats.duplicates + Bump(PatDuplicate(rt'.line))
          /\ stats'.decode_failures =
                 stats.decode_failures + Bump(PatDecodeFail(rt'.line))
          /\ stats'.bit_errors = stats.bit_errors + Bump(PatBitError(rt'.line))
          /\ stats'.mqtt_messages = stats.mqtt_messages + Bump(PatMqtt(rt'.line))]_vars

\* C4 witness: a line that matches two patterns was counted while debug mode
\* was on.
C4_Witness ==
    /\ rt.pc = "display"
    /\ PatBitError(rt.line)
    /\ PatMqtt(rt.line)
    /\ stats.bit_errors >= 1
    /\ stats.mqtt_messages >= 1
    /\ mon.debug_mode

\* C5: the identifier set is exactly the set of the lower-cased identifiers
\* of the lines processed so far, so its size is the number of distinct
\* lower-cased identifiers seen.
C5_IdentifierSet ==
    LET seen == UNION {IdentifiersOf(rt.seen[k]) : k \in 1..Len(rt.seen)}
    IN  /\ stats.icao_addresses = seen
        /\ Cardinality(stats.icao_addresses) = Cardinality(seen)

\* C5 witness: two lines with the same identifier in different letter case
\* left one element in the set.
C5_Witness ==
    /\ rt.seen = <<LineDup, LineBitMqtt>>
    /\ IcaoGroups(LineDup) # {}
    /\ Cardinality(stats.icao_addresses) = 1

-----------------------------------------------------------------------------
(* SpecFrame: the transport of a session that is set up.  The server has   *)
(* sent one frame, whole or cut short, and may send the client's last      *)
(* frame back as it got it; the operator may send one command and          *)
(* interrupt.                                                              *)

\* The payload lengths at the edges of the three length forms.
FrameLengths == {0, 1, 125, 126, 65535, 65536}

\* A payload of n bytes.
PayloadOf(n) == [i \in 1..n |-> (i * 37 + 11) % 256]

FrameMessages ==
    {Message(9, <<>>, PayloadOf(n), 0) : n \in FrameLengths}
    \cup {Message(9, PeerMask, PayloadOf(n), 0) : n \in {0, 1, 125, 126}}
    \cup {Message(1, <<>>, Utf8Encode(TextDupBit), 0),
          Message(1, PeerMask, Utf8Encode(TextIdsPlain), 0),
          Message(2, <<>>, <<104, 255, 105, 10, 195>>, 0),
          Message(8, <<>>, <<>>, 0),
          Message(10, <<>>, PingPayload, 0),
          Message(1, <<>>, Utf8Encode(TextDupBit), 5),
          Message(9, PeerMask, PingPayload, 3),
          Message(9, <<>>, PayloadOf(126), 127),
          Message(9, <<>>, PayloadOf(126), 129)}

InitFrame ==
    /\ ws = [sock |-> "open", connected |-> TRUE]
    /\ hs = [refused |-> FALSE, pending |-> <<>>, response |-> HandshakeOk]
    /\ \E m \in FrameMessages, closed \in BOOLEAN :
          /\ closed => m.cut > 0
          /\ wire = PeerWire(m)
          /\ peer_closed = closed
          /\ env = [NewEnv EXCEPT !.frames = 1, !.served = m]
    /\ LET k == Setup(NewMonitor(<<FiltMqttUpper, FiltZz>>, TRUE, FALSE), NewStats,
                      ws, NewTty, <<>>)
       IN  /\ mon = k.mon
           /\ stats = k.stats
           /\ tty = k.tty
           /\ sent = k.out
    /\ rt = [NewReceiveThread EXCEPT !.pc = "loop"]
    /\ mt = [NewMainThread(<<>>) EXCEPT !.pc = "input"]
    /\ stdin = <<>>
    /\ rx = NewRx

\* The server sends the client's last frame back, byte for byte.
ServerEchoes ==
    /\ mt.pc = "input"
    /\ ~peer_closed
    /\ wire = <<>>
    /\ sent # <<>>
    /\ env.echoed = 0
    /\ wire' = sent[Len(sent)].frame
    /\ env' = [env EXCEPT !.echoed = Len(sent)]
    /\ UNCHANGED <<ws, hs, peer_closed, sent, mon, stats, rt, mt, stdin, tty, rx>>

OperatorCommands == Types({KeysAt})

NextFrame ==
    \/ RecvLoop \/ RecvLine \/ ShouldDisplayEnter \/ ShouldDisplayScan \/ RecvLog
    \/ ServerEchoes \/ OperatorCommands \/ OperatorInterrupts
    \/ KeyPrintable \/ KeyEnter \/ KeyCtrlC \/ RunFinally

SpecFrame == InitFrame /\ [][NextFrame]_vars

\* How many bytes of frame f come before the mask key, by the length
\* marker in its second byte.
HeaderLength(f) ==
    IF f[2] % 128 = 126 THEN 4 ELSE IF f[2] % 128 = 127 THEN 10 ELSE 2

\* The payload a peer reads from the client's frame f: the bytes after the
\* 4-byte key, each XORed with the key byte of its position modulo 4.
PeerReads(f) ==
    LET h == HeaderLength(f)
    IN  [i \in 1..(Len(f) - h - 4) |-> BitXor(f[h + 4 + i], f[h + 1 + ((i - 1) % 4)])]

\* Frame f carries the length n in the form the claims state for it.
LengthFormOf(f, n) ==
    IF n <= 125 THEN f[2] % 128 = n /\ Len(f) = 2 + 4 + n
    ELSE IF n <= 65535
    THEN f[2] % 128 = 126 /\ f[3] * 256 + f[4] = n /\ Len(f) = 4 + 4 + n
    ELSE /\ f[2] % 128 = 127
         /\ f[3] = 0 /\ f[4] = 0 /\ f[5] = 0 /\ f[6] = 0
         /\ ((f[7] * 256 + f[8]) * 256 + f[9]) * 256 + f[10] = n
         /\ Len(f) = 10 + 4 + n

\* The socket loop has read the frame the server sent back.
EchoRead == env.echoed > 0 /\ wire # sent[env.echoed].frame

\* C6: receive, given a frame that _create_frame built, recovers the payload
\* the frame was built from, for the payload lengths 0, 1, 125, 126, 65535
\* and 65536, and the frame has the 7-bit length up to 125, the 16-bit form
\* from 126 to 65535 and the 64-bit form above.
C6_RoundTrip ==
    EchoRead =>
        /\ rx.opcode = sent[env.echoed].opcode
        /\ rx.payload = sent[env.echoed].payload
        /\ wire = <<>>
        /\ LengthFormOf(sent[env.echoed].frame, Len(sent[env.echoed].payload))

\* C6 witness: a frame with a payload of 126 bytes, the first length of the
\* 16-bit form, came back and was read.
C6_Witness ==
    /\ EchoRead
    /\ sent[env.echoed].payload = PayloadOf(126)
    /\ rx.payload = PayloadOf(126)

\* The socket loop takes the step that reads the whole ping frame of the
\* server's.
PingRead ==
    /\ wire # <<>>
    /\ wire' = <<>>
    /\ env.echoed = 0
    /\ env.served.opcode = 9
    /\ env.served.cut = 0

\* C8: reading a ping frame with payload P sends exactly one pong frame
\* whose payload, unmasked, is P, and returns the no-data result; no line
\* goes to the classification pipeline, no counter and no scrollback entry
\* changes.
C8_PingPong ==
    [][PingRead =>
          /\ Len(sent') = Len(sent) + 1
          /\ SubSeq(sent', 1, Len(sent)) = sent
          /\ sent'[Len(sent')].opcode = 10
          /\ sent'[Len(sent')].frame[1] % 16 = 10
          /\ PeerReads(sent'[Len(sent')].frame) = env.served.payload
          /\ rx'.result = "empty"
          /\ rt' = rt
          /\ stats' = stats
          /\ mon'.display_buffer = mon.display_buffer]_vars

\* C8 witness: after a line was counted, a ping was read and answered.
C8_Witness ==
    /\ rx.opcode = 9
    /\ rx.result = "empty"
    /\ env.served.payload = PingPayload
    /\ stats.total_messages >= 1
    /\ \E k \in 1..Len(sent) : sent[k].opcode = 10 /\ sent[k].payload = PingPayload
    /\ rt.pc = "loop"

\* C7: every frame the client sends - a command, a pong, the close frame -
\* is one frame with the FIN bit and the mask bit set, a 4-byte key after
\* the length field and the payload XORed with the key, byte by byte, the
\* key repeating.
C7_FramesMasked ==
    \A k \in 1..Len(sent) :
        LET f == sent[k].frame
        IN  /\ f[1] >= 128
            /\ f[1] % 16 = sent[k].opcode
            /\ f[2] >= 128
            /\ Len(f) = HeaderLength(f) + 4 + Len(sent[k].payload)
            /\ PeerReads(f) = sent[k].payload

\* C7 witness: a command, a pong and the close frame have been sent.
C7_Witness ==
    /\ \E k \in 1..Len(sent) : sent[k].opcode = 1 /\ sent[k].payload # <<>>
    /\ \E k \in 1..Len(sent) : sent[k].opcode = 10 /\ sent[k].payload # <<>>
    /\ \E k \in 1..Len(sent) : sent[k].opcode = 8

-----------------------------------------------------------------------------
(* SpecRun: run() from its start to its end, with the answers a server can *)
(* give to the handshake, a socket loop that can fail, and an operator     *)
(* who may send a command, press Tab and Backspace, and interrupt.         *)

HandshakeBad == <<72, 84, 84, 80, 47, 49, 46, 49, 32, 52, 48, 48, 32, 66, 97, 100, 32, 82, 101, 113, 117, 101, 115, 116, 13, 10, 13, 10>>  \* 'HTTP/1.1 400 Bad Request\r\n\r\n'

HandshakeLateToken == <<72, 84, 84, 80, 47, 49, 46, 49, 32, 52, 48, 48, 32, 66, 97, 100, 32, 82, 101, 113, 117, 101, 115, 116, 13, 10, 13, 10, 49, 48, 49, 32, 83, 119, 105, 116, 99, 104, 105, 110, 103, 32, 80, 114, 111, 116, 111, 99, 111, 108, 115>>  \* 'HTTP/1.1 400 Bad Request\r\n\r\n101 Switching Protocols'

HandshakeCutShort == <<72, 84, 84, 80, 47, 49, 46, 49, 32, 49, 48, 49, 32, 83, 119, 105, 116, 99, 104, 105, 110, 103, 32, 80, 114, 111, 116, 111, 99, 111, 108, 115, 13, 10>>  \* 'HTTP/1.1 101 Switching Protocols\r\n'

\* What the server answers to the handshake request before it goes silent.
HandshakeResponses == {HandshakeOk, HandshakeBad, HandshakeLateToken, HandshakeCutShort}

InitRun ==
    /\ ws = NewWebSocket
    /\ \E refused \in BOOLEAN, response \in HandshakeResponses \cup {<<>>} :
          /\ refused => response = <<>>
          /\ hs = [refused |-> refused, pending |-> response, response |-> <<>>]
    /\ wire = <<>>
    /\ peer_closed = FALSE
    /\ sent = <<>>
    /\ \E log_file \in BOOLEAN :
          mon = NewMonitor(<<FiltMqttUpper, FiltZz>>, TRUE, log_file)
    /\ stats = NewStats
    /\ rt = NewReceiveThread
    /\ \E level \in {<<>>, LogLevelInfo} : mt = NewMainThread(level)
    /\ stdin = <<>>
    /\ tty = NewTty
    /\ rx = NewRx
    /\ env = NewEnv

\* The operator sends a command, or presses Tab twice, Backspace and Tab.
OperatorTries == Types({KeysAt, <<9, 9, 127, 9>>})

\* A step of the program: of run(), of the socket loop, of the keyboard loop.
ProgramStep ==
    \/ RunConnect \/ RunHandshakeRecv \/ RunSetup \/ RunFinally
    \/ RecvLoop \/ RecvLine \/ ShouldDisplayEnter \/ ShouldDisplayScan \/ RecvLog
    \/ KeyEnter \/ KeyBackspace \/ KeyCtrlC \/ KeyTab \/ KeyPrintable

NextRun ==
    \/ ProgramStep
    \/ RecvFault
    \/ OperatorTries \/ OperatorInterrupts \/ ServerSends \/ ServerCloses

SpecRun == InitRun /\ [][NextRun]_vars

\* connect() has returned or raised.
ConnectOver == mt.pc \notin {"connect", "handshake"}

\* The response up to the end of its first blank line, or all of it when
\* it has none.
UpToTerminator(response) ==
    LET ends == {i \in 4..Len(response) : SubSeq(response, i - 3, i) = HandshakeTerminator}
    IN  IF ends = {} THEN response
        ELSE SubSeq(response, 1, CHOOSE i \in ends : \A j \in ends : i <= j)

\* C9: connect succeeds iff the response, read up to the blank-line
\* terminator, contains '101 Switching Protocols'; when connect fails the
\* transport is not marked connected, neither loop is started and every
\* counter has its initial value when teardown runs.
C9_HandshakeIff ==
    ConnectOver =>
        /\ ~mt.error <=> /\ Contains(hs.response, HandshakeTerminator)
                         /\ Contains(UpToTerminator(hs.response), HandshakeToken)
        /\ mt.error =>
              /\ ~ws.connected
              /\ rt.pc = "idle"
              /\ tty.mode = "cooked"
              /\ stdin = <<>>
              /\ stats = NewStats
              /\ mt.pc = "done" => mt.final_stats = <<NewStats>>

\* One of the exits the claims name has been taken: the interrupt key, a
\* failed handshake, a fault in the socket loop, a fault in the keyboard loop.
ExitTaken ==
    \/ ~mon.running
    \/ mt.error
    \/ rt.pc = "dead"
    \/ mt.swallowed

\* The program has come to rest: no thread of it can take a step until the
\* operator or the server acts.
AtRest == ~ENABLED ProgramStep

\* C10: teardown runs exactly once on every exit path - the interrupt key,
\* a failed handshake, a fault in the socket loop or in the keyboard loop:
\* never twice, and when an exit has been taken the program does not come
\* to rest before teardown has run.
C10_TeardownOnce ==
    /\ mt.teardowns <= 1
    /\ (ExitTaken /\ AtRest) => mt.teardowns = 1

\* receive() has reported a disconnect (a close frame, a closed socket or a
\* short read made it return None) and the socket loop has left its loop.
DisconnectSeen == rt.pc = "exit" /\ rx.result = "none"

\* C11: after receive reports a disconnect in mid-session the session winds
\* down without the operator's help: the program does not come to rest
\* before the keyboard loop has stopped and teardown has run.
C11_WindsDown ==
    (DisconnectSeen /\ AtRest) => (~mon.running /\ mt.teardowns = 1)

-----------------------------------------------------------------------------
(* The two loops on the shared console state.                              *)

\* The aggregate the two loops share: scrollback, stats, filters, overlay
\* mode, input buffer, command history, suggestion cursor.
SharedState(m, st) ==
    <<m.display_buffer, st, m.filters, m.show_help_overlay, m.show_stats_overlay,
      m.input_buffer, m.command_history, m.tab_suggestions, m.tab_completion_index>>

\* The socket loop is inside should_display, between two turns of its loop
\* over self.filters.
InsideShouldDisplay == rt.pc = "scan"

\* The keyboard loop handles a key in this step.
KeyboardStep == mt.pc = "input" /\ Len(stdin') < Len(stdin)

\* C12: every access of the two loops to the shared console state happens
\* inside one exclusive-access boundary: while the socket loop is inside an
\* operation on that state, no step of the keyboard loop changes it.
C12_ExclusiveAccess ==
    [][(InsideShouldDisplay /\ KeyboardStep)
          => SharedState(mon', stats') = SharedState(mon, stats)]_vars

\* The display decision on a filter list, with debug mode off: no filter,
\* or a filter that occurs in the line, letter case ignored.
DecisionOn(list, line) ==
    \/ list = <<>>
    \/ \E i \in 1..Len(list) : OccursIgnoringCase(list[i], line)

\* The socket loop takes its display decision in this step, at the end of
\* the loop over the filters.
Deciding == rt.pc = "scan" /\ rt'.pc \in {"log", "line"}

\* The filters in both lists.
InBoth(before, after) ==
    {f \in FilterPool : (\E i \in 1..Len(before) : before[i] = f)
                        /\ (\E j \in 1..Len(after) : after[j] = f)}

\* C13: when the keyboard loop adds, removes or clears a filter while the
\* socket loop decides whether to display a line, the decision is the one
\* of the filter list before the change or the one of the list after it,
\* and a line that matches a filter present in both is not suppressed.
C13_DecisionBeforeOrAfter ==
    [][Deciding =>
          /\ (rt'.shown = "yes") \in {DecisionOn(rt.entered, rt.line),
                                      DecisionOn(mon.filters, rt.line)}
          /\ (\E f \in InBoth(rt.entered, mon.filters) : OccursIgnoringCase(f, rt.line))
                => rt'.shown = "yes"]_vars

-----------------------------------------------------------------------------
(* The order of the scrollback.                                            *)

\* A scrollback entry the socket loop made of a line of the device.
FromDevice(e) ==
    e.prefix \in {"ERR", "WRN", "MQT", "INF", "none"} /\ e.text # MsgConnectionClosed

\* The device lines in the scrollback, oldest first.
DeviceLines(buf) ==
    LET d == SelectSeq(buf, FromDevice)
    IN  [i \in 1..Len(d) |-> d[i].text]

\* a is b with some elements left out.
RECURSIVE IsSubsequence(_, _)
IsSubsequence(a, b) ==
    IF a = <<>> THEN TRUE
    ELSE IF b = <<>> THEN FALSE
    ELSE IF Head(a) = Head(b) THEN IsSubsequence(Tail(a), Tail(b))
    ELSE IsSubsequence(a, Tail(b))

\* C14: the shown lines of a delivered message are appended to the
\* scrollback in the order in which they occur in the message; entries of
\* the keyboard loop may stand between them but never change their order.
C14_ScrollbackOrder ==
    IsSubsequence(DeviceLines(mon.display_buffer), rt.seen)

\* Two different lines of one message are in the scrollback with a notice
\* of the keyboard loop between them.
C14_Witness ==
    /\ env.frames = 1
    /\ \E i, j, k \in 1..Len(mon.display_buffer) :
          /\ i < j /\ j < k
          /\ FromDevice(mon.display_buffer[i])
          /\ mon.display_buffer[j].prefix \in {"SYS", "TX"}
          /\ FromDevice(mon.display_buffer[k])
          /\ mon.display_buffer[i].text # mon.display_buffer[k].text

-----------------------------------------------------------------------------
(* SpecKeys: the keyboard loop of a session that is set up, with a server  *)
(* that stays silent (the socket loop only polls) and an operator who      *)
(* completes with Tab, walks the history and manages the filters.          *)

FiltNope == <<78, 79, 80, 69>>  \* 'NOPE'

KeysAddMqtt == <<47, 102, 32, 77, 81, 84, 84, 13>>  \* '/f MQTT\r'

KeysRemoveNope == <<47, 114, 102, 32, 78, 79, 80, 69, 13>>  \* '/rf NOPE\r'

KeysTypeF == <<47, 102, 32>>  \* '/f '

\* What the operator presses in one go: Tab round the starting points, Tab
\* after a submitted completion, Tab after Backspace, Tab on '/f ', two
\* commands and a walk up and down the history, a filter added and listed,
\* a filter removed that is not there and a command after it, Tab on the
\* start of an earlier command, Tab on a text nothing completes and Tab
\* again once the text is erased, Tab after a recalled command, Up past the
\* oldest command and Enter, Down on a typed text.
KeySequences ==
    {<<9, 9, 9, 9, 9, 9>>,
     <<9, 13, 9>>,
     <<9, 127, 9>>,
     KeysTypeF \o <<9, 9>>,
     <<97, 13, 98, 13>> \o KeysUp \o KeysUp \o KeysDown \o KeysDown,
     <<97, 13>> \o KeysUp \o KeysDown,
     KeysAddMqtt \o KeysList,
     KeysAddZz \o KeysList,
     KeysRemoveNope \o KeysAt,
     <<97, 98, 13, 97, 9>>,
     <<120, 9, 127, 9>>,
     <<97, 13, 9>> \o KeysUp \o <<9>>,
     <<97, 13>> \o KeysUp \o KeysUp \o <<13>>,
     <<97, 13, 98>> \o KeysDown \o KeysDown}

\* The filter lists the session is started with.
KeysFilters == {<<>>, <<FiltMqttUpper>>, <<FiltZz, FiltMqttUpper>>}

InitKeys ==
    /\ ws = [sock |-> "open", connected |-> TRUE]
    /\ hs = [refused |-> FALSE, pending |-> <<>>, response |-> HandshakeOk]
    /\ wire = <<>>
    /\ peer_closed = FALSE
    /\ env = NewEnv
    /\ \E fl \in KeysFilters :
          LET k == Setup(NewMonitor(fl, TRUE, FALSE), NewStats, ws, NewTty, <<>>)
          IN  /\ mon = k.mon
              /\ stats = k.stats
              /\ tty = k.tty
              /\ sent = k.out
    /\ rt = [NewReceiveThread EXCEPT !.pc = "loop"]
    /\ mt = [NewMainThread(<<>>) EXCEPT !.pc = "input"]
    /\ stdin = <<>>
    /\ rx = NewRx

\* The operator presses one of the key sequences.
OperatorPresses ==
    /\ mt.pc = "input"
    /\ mon.running
    /\ stdin = <<>>
    /\ env.typed < MaxTokens
    /\ \E keys \in KeySequences :
          /\ stdin' = keys
          /\ env' = [env EXCEPT !.typed = @ + 1, !.keys = @ \o keys]
    /\ UNCHANGED <<ws, hs, wire, peer_closed, sent, mon, stats, rt, mt, tty, rx>>

NextKeys ==
    \/ OperatorPresses
    \/ KeyEnter \/ KeyBackspace \/ KeyTab \/ KeyPrintable \/ KeyUp \/ KeyDown

SpecKeys == InitKeys /\ [][NextKeys]_vars

\* The keys the keyboard loop has read so far.
Pressed == SubSeq(env.keys, 1, Len(env.keys) - Len(stdin))

\* The key read last, -1 when none was.
LastKey == IF Pressed = <<>> THEN -1 ELSE Pressed[Len(Pressed)]

\* The keyboard loop reads a Tab in this step.
TabStep == mt.pc = "input" /\ stdin # <<>> /\ Head(stdin) = 9 /\ stdin' = Tail(stdin)

\* The candidates the input buffer produces.
Candidates ==
    GetTabSuggestions(mon.input_buffer, mon.filters,
                      CHOOSE o \in Orderings(stats.icao_addresses) : TRUE)

\* How many Tabs in a row were read last.
TabsInARow ==
    LET runs == {n \in 0..Len(Pressed) :
                    \A i \in (Len(Pressed) - n + 1)..Len(Pressed) : Pressed[i] = 9}
    IN  CHOOSE n \in runs : \A m \in runs : m <= n

\* C15: for a buffer with N >= 1 candidates the first Tab puts candidate 0
\* into the buffer, each further Tab with no other key in between puts the
\* next candidate modulo N, and the N-th further Tab puts candidate 0 again.
C15_TabCycle ==
    [][TabStep =>
          LET S == mon.tab_suggestions
              N == Len(S)
          IN  /\ (LastKey # 9 /\ Candidates # <<>>)
                    => mon'.input_buffer = Candidates[1]
              /\ (LastKey = 9 /\ N >= 1)
                    => \E i \in 1..N : /\ mon.input_buffer = S[i]
                                       /\ mon'.input_buffer = S[(i % N) + 1]
              /\ (N >= 1 /\ TabsInARow = N)
                    => mon'.input_buffer = S[1]]_vars

\* A Tab was read while a candidate list was cached, Backspace or Delete
\* then removed a character, and no other key was read since.
ErasedAfterTab ==
    /\ Len(Pressed) >= 2
    /\ Pressed[Len(Pressed)] \in {127, 8}
    /\ Pressed[Len(Pressed) - 1] = 9
    /\ mon.tab_completion_index # -1

\* C16: a non-Tab edit invalidates the suggestion cache: after Backspace or
\* Delete removed a character while a candidate list was cached, the next
\* Tab computes the candidates of the shortened buffer and selects
\* candidate 0; it does not fail.
C16_EraseInvalidates ==
    [][(TabStep /\ ErasedAfterTab) =>
          /\ mt'.swallowed = mt.swallowed
          /\ mon'.tab_suggestions = Candidates
          /\ Candidates # <<>> => mon'.input_buffer = Candidates[1]]_vars

\* C17: the candidate list Tab cycles through never has more than 10
\* entries.
C17_AtMostTen == Len(mon.tab_suggestions) <= 10

\* k presses of a key that sends the three codes `keys`.
Repeated(keys, k) == [i \in 1..(3 * k) |-> keys[((i - 1) % 3) + 1]]

\* The keys read last are `tail`, right after a command was submitted (a
\* printable character and Enter: process_command has set the history
\* index to -1).
AfterCommand(tail) ==
    LET n == Len(Pressed) - Len(tail)
    IN  /\ n >= 2
        /\ SubSeq(Pressed, n + 1, Len(Pressed)) = tail
        /\ Pressed[n] = 13
        /\ Pressed[n - 1] \in (32..126) \ {63}

\* The k-th most recent entry of the command history.
Recent(k) == mon.command_history[Len(mon.command_history) - k + 1]

\* C18: with h commands in the history and the history index at -1, after
\* the i-th history-up press the buffer holds the i-th most recent entry,
\* each history-down press goes back to the newer one, and k presses up
\* followed by k presses down (k <= h) leave the buffer empty and the index
\* at -1.
C18_HistoryRoundTrip ==
    \A k \in 1..Len(mon.command_history) : \A j \in 0..k :
        AfterCommand(Repeated(KeysUp, k) \o Repeated(KeysDown, j)) =>
            /\ mon.history_index = k - j - 1
            /\ mon.input_buffer = IF j = k THEN <<>> ELSE Recent(k - j)

\* Two commands are in the history and the operator went up twice and down
\* twice.
C18_Witness ==
    /\ Len(mon.command_history) = 2
    /\ AfterCommand(Repeated(KeysUp, 2) \o Repeated(KeysDown, 2))
    /\ mon.input_buffer = <<>>
    /\ mon.history_index = -1

\* The keyboard loop reads Enter in this step, with cmd in the input buffer.
Submits(cmd) ==
    /\ mt.pc = "input"
    /\ stdin # <<>>
    /\ Head(stdin) = 13
    /\ stdin' = Tail(stdin)
    /\ mon.input_buffer = cmd

\* The filters as `/lf` lists them: separated by a comma and a space.
RECURSIVE Listed(_)
Listed(list) ==
    IF Len(list) = 1 THEN list[1]
    ELSE list[1] \o <<44, 32>> \o Listed(Tail(list))

LitFilters == <<70, 105, 108, 116, 101, 114, 115, 58, 32>>  \* 'Filters: '

LitFiltersMqtt == <<70, 105, 108, 116, 101, 114, 115, 58, 32, 77, 81, 84, 84>>  \* 'Filters: MQTT'

\* The text of the newest scrollback entry.
NewestText(m) == m.display_buffer[Len(m.display_buffer)].text

\* C19: `/f p` appends p as one new last element of the filter list, also
\* when p is in it already; `/lf` then adds a status line that lists the
\* filters in order and leaves the list alone; with MQTT as the only filter
\* the status line reads 'Filters: MQTT'.
C19_AddThenList ==
    [][/\ \A p \in FilterPool \cup {FiltNope} :
             Submits(PrefixF \o p) => mon'.filters = Append(mon.filters, p)
       /\ Submits(CmdLf) =>
             /\ mon'.filters = mon.filters
             /\ mon.filters # <<>> =>
                   /\ NewestText(mon') = LitFilters \o Listed(mon.filters)
                   /\ mon'.display_buffer[Len(mon'.display_buffer)].prefix = "SYS"
             /\ mon.filters = <<FiltMqttUpper>> => NewestText(mon') = LitFiltersMqtt]_vars

\* The operator added a filter that was there already and listed the
\* filters: it is listed twice.
C19_Witness ==
    /\ Pressed = KeysAddZz \o KeysList
    /\ mon.filters = <<FiltZz, FiltMqttUpper, FiltZz>>
    /\ NewestText(mon) = LitFilters \o Listed(mon.filters)

\* C20: `/rf p` with p not in the filter list leaves the list as it is and
\* raises no error: the keyboard loop goes on, and the command submitted
\* next is sent.
C20_RemoveAbsent ==
    [][/\ \A p \in FilterPool \cup {FiltNope} :
             (Submits(PrefixRf \o p) /\ \A i \in 1..Len(mon.filters) : mon.filters[i] # p)
                 => /\ mon'.filters = mon.filters
                    /\ mon'.display_buffer = mon.display_buffer
                    /\ mon'.running
                    /\ mt'.pc = "input"
                    /\ mt'.swallowed = mt.swallowed
       /\ (Submits(<<65, 84>>) /\ EndsWith(Pressed, KeysRemoveNope \o <<65, 84>>))
             => /\ stats'.commands_sent = stats.commands_sent + 1
                /\ Len(sent') = Len(sent) + 1
                /\ sent'[Len(sent')].payload = <<65, 84, 13, 10>>]_vars

\* `/rf NOPE` was submitted with MQTT as the only filter, and the command
\* typed after it was sent.
C20_Witness ==
    /\ Pressed = KeysRemoveNope \o KeysAt
    /\ mon.filters = <<FiltMqttUpper>>
    /\ stats.commands_sent = 1

-----------------------------------------------------------------------------
(* SpecConsole: a session that is set up, after no command or after a      *)
(* history's worth of them, with the operator at the keyboard and the      *)
(* device sending.                                                         *)

KeysRemoveMqtt == <<47, 114, 102, 32, 77, 81, 84, 84, 13>>  \* '/rf MQTT\r'

\* What the operator types in one go: a command for the device, each of the
\* local commands, Enter on an empty line, a command recalled and sent
\* again, a completion, the overlays opened and closed, a pause, a
\* character typed and erased, a walk through the history, the other
\* control keys, Ctrl+C.
ConsoleTokens ==
    {KeysAt, KeysAddZz, KeysRemoveMqtt, KeysList, KeysClear, KeysUnknown,
     <<13>>, KeysUp \o <<13>>, <<9, 13>>,
     KeysF1 \o KeysF1, KeysF1 \o KeysF2 \o KeysF2, <<63>> \o KeysF2 \o <<63, 63>>,
     <<16>>, <<120, 127>>, KeysUp \o KeysDown, KeysEscX,
     <<12>>, <<4>>, <<24>>, <<0>>, <<3>>}

\* How many commands the operator has submitted before: none, one short of
\* the history's capacity, the history's capacity.
EarlierCommands == {0, HistoryMaxLen - 1, HistoryMaxLen}

\* Enter pressed on a line that holds cmd
Entered(k, w, cmd) ==
    [HandleEnter([k.mon EXCEPT !.input_buffer = cmd], k.stats, w, k.tty)
        EXCEPT !.out = k.out \o @]

\* Enter pressed n times on '/lf'
RECURSIVE Resubmitted(_, _, _)
Resubmitted(k, w, n) ==
    IF n = 0 THEN k
    ELSE IF n = 1 THEN Entered(k, w, CmdLf)
    ELSE CHOOSE r \in {Resubmitted(h, w, n - (n \div 2)) :
                          h \in {Resubmitted(k, w, n \div 2)}} : TRUE

\* Enter pressed n times, on '/x' first and on '/lf' from then on
AfterCommands(k, w, n) ==
    IF n = 0 THEN k
    ELSE CHOOSE r \in {Resubmitted(h, w, n - 1) : h \in {Entered(k, w, <<47, 120>>)}} : TRUE

InitConsole ==
    /\ ws = [sock |-> "open", connected |-> TRUE]
    /\ hs = [refused |-> FALSE, pending |-> <<>>, response |-> HandshakeOk]
    /\ wire = <<>>
    /\ peer_closed = FALSE
    /\ env = NewEnv
    /\ \E n \in EarlierCommands :
          LET k == AfterCommands(Setup(NewMonitor(<<FiltMqttUpper>>, TRUE, FALSE),
                                       NewStats, ws, NewTty, <<>>), ws, n)
          IN  /\ mon = k.mon
              /\ stats = k.stats
              /\ tty = k.tty
              /\ sent = k.out
    /\ rt = [NewReceiveThread EXCEPT !.pc = "loop"]
    /\ mt = [NewMainThread(<<>>) EXCEPT !.pc = "input"]
    /\ stdin = <<>>
    /\ rx = NewRx

OperatorWorks == Types(ConsoleTokens)

NextConsole ==
    \/ OperatorWorks \/ ServerSends \/ ServerCloses
    \/ RecvLoop \/ RecvLine \/ ShouldDisplayEnter \/ ShouldDisplayScan \/ RecvLog
    \/ KeyEnter \/ KeyBackspace \/ KeyCtrlC \/ KeyCtrlL \/ KeyCtrlP \/ KeyCtrlD
    \/ KeyCtrlX \/ KeyF1 \/ KeyF2 \/ KeyUp \/ KeyDown \/ KeyEscOther \/ KeyTab
    \/ KeyQuestion \/ KeyPrintable \/ KeyIgnored
    \/ RunFinally

SpecConsole == InitConsole /\ [][NextConsole]_vars

\* The first word of a command, lower-cased, is none of the local commands.
Unrecognized(cmd) == ToLower(SplitMax1(cmd)[1]) \notin {CmdF, CmdRf, CmdLf, CmdCf}

\* The scrollback after one more status line with this text.
WithStatus(buf, text) ==
    DequeAppend(buf, [prefix |-> "SYS", text |-> text, decoded |-> mon.decode_mode],
                DisplayMaxLen)

\* C21: Enter on a buffer that starts with '/' sends no frame to the device
\* and leaves commandsSent as it was; when the command is none of /f, /rf,
\* /lf, /cf the step adds one status line to the scrollback and changes
\* neither the filters nor any counter.
C21_SlashIsLocal ==
    [][(Submits(mon.input_buffer) /\ StartsWith(mon.input_buffer, Slash))
       => /\ sent' = sent
          /\ stats'.commands_sent = stats.commands_sent
          /\ Unrecognized(mon.input_buffer)
                => /\ mon'.filters = mon.filters
                   /\ stats' = stats
                   /\ \E text \in {MsgUnknownCommand
                                     \o ToLower(SplitMax1(mon.input_buffer)[1])} :
                         mon'.display_buffer = WithStatus(mon.display_buffer, text)]_vars

\* An unrecognized command has been submitted: its status line is the
\* newest of the scrollback and nothing has been sent.
C21_Witness ==
    /\ mon.display_buffer # <<>>
    /\ NewestText(mon) = MsgUnknownCommand \o <<47, 120>>
    /\ mon.command_history # <<>>
    /\ Recent(1) = <<47, 120>>
    /\ Len(mon.command_history) = HistoryMaxLen
    /\ sent = <<>>
    /\ stats.commands_sent = 0

\* The keyboard loop reads Enter in this step, on a buffer that is not
\* empty and does not start with '/'.
SubmitsRemote ==
    /\ Submits(mon.input_buffer)
    /\ mon.input_buffer # <<>>
    /\ ~StartsWith(mon.input_buffer, Slash)

\* The text of a remote command on the wire: a line terminator is appended
\* when the text does not end with one.
Terminated(cmd) == IF EndsWith(cmd, CrLf) THEN cmd ELSE cmd \o CrLf

\* The step hands exactly one frame to the socket, a text frame with this
\* text as its payload, and counts one more command.
SendsOne(text) ==
    /\ Len(sent') = Len(sent) + 1
    /\ SubSeq(sent', 1, Len(sent)) = sent
    /\ sent'[Len(sent')].opcode = 1
    /\ sent'[Len(sent')].payload = Utf8Encode(text)
    /\ stats'.commands_sent = stats.commands_sent + 1

C23_OneOverlay == ~(mon.show_help_overlay /\ mon.show_stats_overlay)

\* What a Tab read in the state this step leaves behind does: the monitor
\* after it, or none when the handler raises.
NextTab ==
    {IF TabRaises(mon') THEN [raised |-> TRUE, mon |-> mon']
     ELSE [raised |-> FALSE,
           mon |-> HandleTabCompletion(mon', GetTabSuggestions(mon'.input_buffer,
                                                               mon'.filters, icaos))] :
        icaos \in Orderings(stats'.icao_addresses)}

\* C24: Enter on a non-empty buffer leaves the buffer empty and the
\* suggestion cursor reset: a Tab read next computes the candidates of the
\* empty buffer and puts candidate 0 into the buffer, also when the submit
\* came in the middle of a Tab cycle.
C24_SubmitResetsCursor ==
    [][(Submits(mon.input_buffer) /\ mon.input_buffer # <<>>)
       => /\ mon'.input_buffer = <<>>
          /\ \A t \in NextTab :
                /\ ~t.raised
                /\ t.mon.tab_suggestions = GetTabSuggestions(<<>>, mon'.filters, <<>>)
                /\ t.mon.input_buffer = t.mon.tab_suggestions[1]]_vars

\* The entries of the history that start with text and are not text itself,
\* oldest first.
HistoryMatches(history, text) ==
    SelectSeq(history, LAMBDA cmd : StartsWith(cmd, text) /\ cmd # text)

\* The buffer is not empty and has none of the marker forms: it does not
\* start with '/' nor, in any letter case, with 'AT'.
PlainBuffer ==
    /\ mon.input_buffer # <<>>
    /\ ~StartsWith(mon.input_buffer, Slash)
    /\ ~StartsWith(ToUpper(mon.input_buffer), <<65, 84>>)

\* C25: on a non-empty buffer with none of the marker forms the candidates
\* Tab offers are the earlier history entries that start with the buffer
\* and differ from it, and the first of them goes into the buffer.
C25_HistoryCandidates ==
    [][(TabStep /\ LastKey # 9 /\ PlainBuffer)
       => LET matches == HistoryMatches(mon.command_history, mon.input_buffer)
          IN  /\ mon'.tab_suggestions = matches
              /\ matches # <<>> => mon'.input_buffer = matches[1]]_vars

\* 'x' was typed, Tab was read, Backspace emptied the buffer again, and no
\* other key was read since.
ErasedAfterIdleTab == EndsWith(Pressed, <<120, 9, 127>>) /\ mon.input_buffer = <<>>

\* C26: Tab, when the key before it was not a Tab, on a buffer that
\* produces no candidates changes nothing: the input buffer, the suggestion
\* cursor, the history, the filters and the counters stay as they were; and
\* a later Tab on a buffer that has candidates puts candidate 0 into the
\* buffer.
C26_TabWithoutCandidates ==
    [][TabStep
       => /\ (LastKey # 9 /\ Candidates = <<>>)
                => /\ mon'.input_buffer = mon.input_buffer
                   /\ mon'.tab_completion_index = mon.tab_completion_index
                   /\ mon'.command_history = mon.command_history
                   /\ mon'.filters = mon.filters
                   /\ stats' = stats
          /\ ErasedAfterIdleTab
                => Candidates # <<>> /\ mon'.input_buffer = Candidates[1]]_vars

\* The keyboard loop reads these keys in this step.
Reads(keys) ==
    /\ mt.pc = "input"
    /\ StartsWith(stdin, keys)
    /\ stdin' = SubSeq(stdin, Len(keys) + 1, Len(stdin))

\* C27: the history index is always between -1 and the history's length
\* less one; the up arrow at the oldest entry and the down arrow at index
\* -1 change neither the index nor the input buffer; Enter on a non-empty
\* buffer sets the index to -1.
C27_HistoryIndex ==
    /\ [](/\ mon.history_index >= -1
          /\ mon.history_index <= Len(mon.command_history) - 1)
    /\ [][/\ (Reads(KeysUp) /\ mon.history_index = Len(mon.command_history) - 1)
                => /\ mon'.history_index = mon.history_index
                   /\ mon'.input_buffer = mon.input_buffer
          /\ (Reads(KeysDown) /\ mon.history_index = -1)
                => /\ mon'.history_index = mon.history_index
                   /\ mon'.input_buffer = mon.input_buffer
          /\ (Submits(mon.input_buffer) /\ mon.input_buffer # <<>>)
                => mon'.history_index = -1]_vars

\* The operator went up past the oldest of the history and submitted the
\* recalled command: the index is back at -1 and the history holds it twice.
C27_Witness ==
    /\ Pressed = <<97, 13>> \o KeysUp \o KeysUp \o <<13>>
    /\ stdin = <<>>
    /\ mon.history_index = -1
    /\ mon.command_history = <<<<97>>, <<97>>>>

\* The socket loop handles an incoming line in this step: it counts it,
\* decides on its display, or logs it.
LineStep == rt.pc \in {"line", "display", "scan", "log"} /\ rt' # rt /\ stdin' = stdin

\* The history, the filters, the frames sent and commandsSent are after
\* this step what they were before.
CommandsUntouched ==
    /\ mon'.command_history = mon.command_history
    /\ mon'.filters = mon.filters
    /\ stats'.commands_sent = stats.commands_sent
    /\ sent' = sent

\* C28: the history changes only on Enter with a non-empty buffer, which
\* appends the buffer as the newest entry and, with 50 entries already in,
\* drops the oldest; Enter on an empty buffer, every other key and every
\* step on an incoming line leave the history, the filters, the frames sent
\* and commandsSent as they were.
C28_HistoryOnSubmit ==
    [][/\ (Submits(mon.input_buffer) /\ mon.input_buffer # <<>>)
             => mon'.command_history
                  = IF Len(mon.command_history) >= 50
                    THEN Append(Tail(mon.command_history), mon.input_buffer)
                    ELSE Append(mon.command_history, mon.input_buffer)
       /\ ~(Submits(mon.input_buffer) /\ mon.input_buffer # <<>>)
             => mon'.command_history = mon.command_history
       /\ (KeyboardStep /\ ~(Submits(mon.input_buffer) /\ mon.input_buffer # <<>>))
             => CommandsUntouched
       /\ LineStep => CommandsUntouched]_vars

\* A command was submitted with the history at capacity: the history still
\* has 50 entries, the command is the newest of them, and the oldest, '/x',
\* is gone.
C28_Witness ==
    /\ Len(mon.command_history) = 50
    /\ Recent(1) = <<65, 84>>
    /\ mon.command_history[1] = CmdLf
    /\ stats.commands_sent = 1

\* The socket loop logs the line it decided to show in this step.
LineShown == rt.pc = "log" /\ rt'.pc = "line"

\* The console is not paused and no overlay is active.
Normal == ~mon.paused /\ ~mon.show_help_overlay /\ ~mon.show_stats_overlay

\* C29: an incoming line is counted whatever the state of the console, and
\* a line that passed the display decision is appended to the scrollback
\* whatever the state of the console; it is painted in the same step
\* exactly when the console is not paused and no overlay is active, and
\* otherwise nothing is painted.
C29_PaintedWhenNormal ==
    [][/\ LineProcessed => stats'.total_messages = stats.total_messages + 1
       /\ LineShown
             => /\ mon'.display_buffer # <<>>
                /\ NewestText(mon') = rt.line
                /\ Len(mon'.display_buffer)
                      = Min(Len(mon.display_buffer) + 1, DisplayMaxLen)
                /\ tty'.painted
                      = IF Normal
                        THEN Append(tty.painted,
                                    mon'.display_buffer[Len(mon'.display_buffer)])
                        ELSE tty.painted]_vars

\* A line came in while the console was paused: it was counted, it is the
\* newest of the scrollback, and it was not painted.
C29_Witness ==
    /\ mon.paused
    /\ stats.total_messages >= 1
    /\ mon.display_buffer # <<>>
    /\ NewestText(mon) = LineBitMqtt
    /\ \A i \in 1..Len(tty.painted) : tty.painted[i].text # LineBitMqtt

\* The keyboard loop reads a toggle key in this step and an overlay that
\* was active is not active any more.
ClosesOverlay ==
    /\ KeyboardStep
    /\ \/ mon.show_help_overlay /\ ~mon'.show_help_overlay
       \/ mon.show_stats_overlay /\ ~mon'.show_stats_overlay

\* C30: once the operator has closed an overlay with its toggle key the
\* console is in its normal state: the normal layout is on the screen and
\* no overlay is active, and from then on, with the normal layout on the
\* screen and the console not paused, every line shown is painted in the
\* step that shows it.
C30_NormalAfterClose ==
    [][/\ ClosesOverlay
             => /\ tty'.screen = "layout"
                /\ ~mon'.show_help_overlay
                /\ ~mon'.show_stats_overlay
       /\ (LineShown /\ tty.screen = "layout" /\ ~mon.paused)
             => tty'.painted
                  = Append(tty.painted, mon'.display_buffer[Len(mon'.display_buffer)])]_vars

-----------------------------------------------------------------------------
(* Truncated frames and the end of the connection, under SpecFrame.         *)

\* The socket loop's receive() reads, in this step, a frame of the server's
\* that stops short of its declared end.
TruncatedRead ==
    /\ rt.pc = "loop"
    /\ env.echoed = 0
    /\ env.served.cut > 0
    /\ wire # <<>>
    /\ wire' # wire

\* C31: a message receive delivers has all the bytes its frame declared;
\* when the frame on the wire stops short - inside the 2-byte header, the
\* extended length, the mask key or the payload - receive returns the
\* disconnect signal, the socket loop leaves its loop, and no line of that
\* frame is counted or goes to the display decision.
C31_NoPartialMessage ==
    /\ []((rx.result = "text" /\ env.echoed = 0)
            => /\ env.served.cut = 0
               /\ rx.payload = env.served.payload)
    /\ [][TruncatedRead
            => /\ rx'.result = "none"
               /\ rt'.pc = "exit"
               /\ rt'.lines = <<>>
               /\ rt'.seen = rt.seen
               /\ stats' = stats]_vars

\* The server closed the connection five bytes before the end of a text
\* frame's payload: receive gave the disconnect signal and nothing was
\* counted.
C31_Witness ==
    /\ peer_closed
    /\ env.served.opcode = 1
    /\ env.served.cut = 5
    /\ wire = <<>>
    /\ rx.result = "none"
    /\ rt.pc = "exit"
    /\ stats.total_messages = 0

\* C32: once receive has returned the disconnect signal the transport is
\* marked not connected, and Enter on a command for the device then sends
\* no frame and leaves commandsSent as it was.
C32_DisconnectMarks ==
    /\ [](rx.result = "none" => ~ws.connected)
    /\ [][(rx.result = "none" /\ SubmitsRemote)
            => /\ sent' = sent
               /\ stats'.commands_sent = stats.commands_sent]_vars

-----------------------------------------------------------------------------
(* SpecClose: the transport alone, its methods called in any order.        *)

\* How many calls are made on the transport.
MaxCalls == 4

\* The transport as constructed, connected, and with its socket open but
\* the handshake refused.
TransportStates ==
    {NewWebSocket,
     [sock |-> "open", connected |-> TRUE],
     [sock |-> "open", connected |-> FALSE]}

\* What is waiting on the socket: nothing, a ping, a line of text.
TransportWires ==
    {<<>>,
     PeerWire(Message(9, PeerMask, PingPayload, 0)),
     PeerWire(Message(1, <<>>, Utf8Encode(LinePlain), 0))}

InitClose ==
    /\ ws \in TransportStates
    /\ wire \in TransportWires
    /\ peer_closed = FALSE
    /\ hs = NoHandshake
    /\ sent = <<>>
    /\ mon = NewMonitor(<<>>, TRUE, FALSE)
    /\ stats = NewStats
    /\ rt = NewReceiveThread
    /\ mt = NewMainThread(<<>>)
    /\ stdin = <<>>
    /\ tty = NewTty
    /\ rx = NewRx
    /\ env = NewEnv

\* ws.close()
CallClose ==
    /\ env.calls < MaxCalls
    /\ ws' = Close(ws).ws
    /\ sent' = sent \o Close(ws).out
    /\ env' = [env EXCEPT !.calls = @ + 1, !.closes = @ + 1]
    /\ UNCHANGED <<hs, wire, peer_closed, mon, stats, rt, mt, stdin, tty, rx>>

\* ws.send_text('AT\r\n')
CallSendText ==
    /\ env.calls < MaxCalls
    /\ sent' = sent \o SendText(ws, <<65, 84, 13, 10>>).out
    /\ env' = [env EXCEPT !.calls = @ + 1]
    /\ UNCHANGED <<ws, hs, wire, peer_closed, mon, stats, rt, mt, stdin, tty, rx>>

\* ws.receive()
CallReceive ==
    /\ env.calls < MaxCalls
    /\ LET r == Receive(ws, wire, peer_closed)
       IN  /\ ws' = [ws EXCEPT !.connected = r.connected]
           /\ wire' = r.wire
           /\ sent' = sent \o r.out
           /\ rx' = [result |-> r.result, payload |-> r.payload, opcode |-> r.opcode]
    /\ env' = [env EXCEPT !.calls = @ + 1]
    /\ UNCHANGED <<hs, peer_closed, mon, stats, rt, mt, stdin, tty>>

NextClose == CallClose \/ CallSendText \/ CallReceive

SpecClose == InitClose /\ [][NextClose]_vars

\* close() is called in this step.
CloseStep == env'.closes = env.closes + 1

\* The close frames among the frames sent.
CloseFrames == {k \in 1..Len(sent) : sent[k].opcode = 8}

\* C33: over any sequence of calls at most one close frame is sent, by the
\* first close() and only if the transport was connected then; after a
\* close() the transport is not connected; a repeated close() changes
\* nothing; and after a close() neither send_text nor receive sends a frame.
C33_CloseIdempotent ==
    /\ [](Cardinality(CloseFrames) <= 1)
    /\ [](env.closes >= 1 => ~ws.connected)
    /\ [][/\ CloseStep
                => \/ /\ env.closes = 0
                      /\ ws.connected
                      /\ Len(sent') = Len(sent) + 1
                      /\ SubSeq(sent', 1, Len(sent)) = sent
                      /\ sent'[Len(sent')].opcode = 8
                      /\ sent'[Len(sent')].payload = <<>>
                   \/ /\ ~(env.closes = 0 /\ ws.connected)
                      /\ sent' = sent
          /\ (CloseStep /\ env.closes >= 1) => ws' = ws
          /\ (~CloseStep /\ env.closes >= 1) => (sent' = sent /\ ws' = ws)]_vars

\* close() was called twice on a connected transport with a ping waiting,
\* then receive(): one close frame went out, no pong, and receive gave the
\* disconnect signal.
C33_Witness ==
    /\ env.closes = 2
    /\ env.calls = 3
    /\ Len(sent) = 1
    /\ sent[1].opcode = 8
    /\ wire = PeerWire(Message(9, PeerMask, PingPayload, 0))
    /\ rx.result = "none"
    /\ ~ws.connected

\* What the operator types when they stop the session: Ctrl+C with a
\* command typed behind it, Ctrl+C after a command, Ctrl+C in the middle
\* of a command.
InterruptTokens == {<<3>> \o KeysAt, KeysAt \o <<3>>, <<65, 3, 84, 13>>}

OperatorStops == Types(InterruptTokens)

NextInterrupt ==
    \/ OperatorStops \/ ServerSends \/ ServerCloses
    \/ RecvLoop \/ RecvLine \/ ShouldDisplayEnter \/ ShouldDisplayScan \/ RecvLog
    \/ KeyPrintable \/ KeyEnter \/ KeyCtrlC
    \/ RunFinally

\* SpecInterrupt: the session of SpecConsole with the operator about to
\* stop it.
SpecInterrupt == InitConsole /\ [][NextInterrupt]_vars

\* SpecInterrupt with run() going on from input_thread()'s return to its
\* finally block: the main thread is never blocked there.  The socket
\* loop's thread is a daemon thread and gets no fairness of its own.
SpecInterruptFair == SpecInterrupt /\ WF_vars(RunFinally)

\* The keyboard loop has been left; the socket loop has been left, or the
\* process has ended and its daemon thread with it.
LoopsOver == mt.pc # "input" /\ (rt.pc = "exit" \/ mt.pc = "done")

\* C34: once the running flag is false it stays false, no key is read any
\* more, the socket loop's next test of its loop condition ends the loop
\* without another receive - so it handles at most the message it is in the
\* middle of - and both loops come to an end.
C34_InterruptStops ==
    /\ [][~mon.running
            => /\ ~mon'.running
               /\ stdin' = stdin
               /\ mon'.input_buffer = mon.input_buffer
               /\ (rt.pc = "loop" /\ rt' # rt)
                     => /\ rt'.pc = "exit"
                        /\ wire' = wire
                        /\ rx' = rx]_vars
    /\ (~mon.running ~> LoopsOver)

\* Ctrl+C was read with a command typed behind it and a message of several
\* lines half handled: the keys are still unread, the socket loop finished
\* the message and left its loop before teardown.
C34_Witness ==
    /\ ~mon.running
    /\ stdin = KeysAt
    /\ rt.pc = "exit"
    /\ rx.result = "text"
    /\ rt.seen = <<LineDup, LineBitMqtt>>
    /\ mt.pc = "finally"
    /\ wire # <<>>


\* ---------------------------------------------------------------------
\* The terminal after teardown, under Spec
\* ---------------------------------------------------------------------

\* run()'s finally block has run in a session that had set the terminal up.
TornDown == mt.pc = "done" /\ mon.old_settings # "unset"

\* C35: after teardown the terminal has the settings it had before the
\* session first put it into raw mode, whatever keys came before the exit,
\* opening and closing of the Help or Stats overlay included.
C35_TerminalRestored == TornDown => tty.mode = NewTty.mode


\* ---------------------------------------------------------------------
\* The counters statement by statement, under SpecStats
\* ---------------------------------------------------------------------

\* Variant of UpdateStatsOrder that counts the line itself last.
UpdateStatsOrder_TotalLast ==
    <<"duplicates", "decode_failures", "bit_errors", "mqtt_messages",
      "icao_addresses", "total_messages">>

\* The statements of update_stats in the order of the source, each named
\* after the statistic it writes.
UpdateStatsOrder ==
    <<"total_messages", "duplicates", "decode_failures", "bit_errors",
      "mqtt_messages", "icao_addresses">>

\* One statement of update_stats(message).
UpdateStatsStatement(st, message, at) ==
    CASE at = "total_messages" -> [st EXCEPT !.total_messages = @ + 1]
      [] at = "duplicates" ->
            [st EXCEPT !.duplicates = @ + Bump(PatDuplicate(message))]
      [] at = "decode_failures" ->
            [st EXCEPT !.decode_failures = @ + Bump(PatDecodeFail(message))]
      [] at = "bit_errors" ->
            [st EXCEPT !.bit_errors = @ + Bump(PatBitError(message))]
      [] at = "mqtt_messages" ->
            [st EXCEPT !.mqtt_messages = @ + Bump(PatMqtt(message))]
      [] at = "icao_addresses" ->
            [st EXCEPT !.icao_addresses = @ \cup IcaoGroups(message)]

\* `for line in msg.split('\n')`: the next line, up to the call of
\* update_stats on it
RecvLineNext ==
    /\ ReceiveThreadAlive
    /\ rt.pc = "line"
    /\ IF rt.lines = <<>>
       THEN rt' = [rt EXCEPT !.pc = "loop"]
       ELSE LET line == StripCrLf(Head(rt.lines))
            IN  IF line = <<>>
                THEN rt' = [rt EXCEPT !.lines = Tail(@)]
                ELSE rt' = [rt EXCEPT !.lines = Tail(@), !.line = line,
                                      !.pc = UpdateStatsOrder[1], !.shown = "none",
                                      !.seen = Append(@, line)]
    /\ UNCHANGED <<ws, hs, wire, peer_closed, sent, mon, stats, mt, stdin, tty, rx, env>>

\* update_stats(line): its next statement; after the last one the loop
\* goes on to should_display
RecvUpdateStats ==
    /\ ReceiveThreadAlive
    /\ \E i \in 1..Len(UpdateStatsOrder) :
          /\ rt.pc = UpdateStatsOrder[i]
          /\ stats' = UpdateStatsStatement(stats, rt.line, UpdateStatsOrder[i])
          /\ rt' = [rt EXCEPT !.pc = IF i = Len(UpdateStatsOrder) THEN "display"
                                     ELSE UpdateStatsOrder[i + 1]]
    /\ UNCHANGED <<ws, hs, wire, peer_closed, sent, mon, mt, stdin, tty, rx, env>>

\* What the operator types while the counters run: a device command, a
\* filter added, removed, all filters cleared, the Stats overlay opened and
\* closed, pause, Ctrl+C.
StatsTokens ==
    {KeysAt, KeysAddZz, KeysRemoveMqtt, KeysClear, KeysF2 \o KeysF2, <<16>>, <<3>>}

OperatorWatches == Types(StatsTokens)

NextStats ==
    \/ OperatorWatches \/ ServerSends \/ ServerCloses
    \/ RecvLoop \/ RecvLineNext \/ RecvUpdateStats
    \/ ShouldDisplayEnter \/ ShouldDisplayScan \/ RecvLog
    \/ KeyEnter \/ KeyCtrlC \/ KeyCtrlP \/ KeyF2 \/ KeyPrintable
    \/ RunFinally

\* SpecStats: the session of SpecConsole with update_stats taken one
\* statement at a time.
SpecStats == InitConsole /\ [][NextStats]_vars

\* The statistics the claim compares with the total.
BoundedCounters ==
    {"filtered_messages", "duplicates", "decode_failures", "bit_errors",
     "mqtt_messages"}

\* C36: in every state, between the statements of update_stats and
\* should_display and with keys handled in between, each of the filtered,
\* duplicate, decode-failure, bit-error and MQTT counters is at most the
\* total; the statements of update_stats taken one by one amount to
\* update_stats on the line.
C36_CountersWithinTotal ==
    /\ \A c \in BoundedCounters : stats[c] <= stats.total_messages
    /\ rt.pc = "display" /\ Len(rt.seen) = 1
          => stats = [UpdateStats(NewStats, rt.line)
                         EXCEPT !.commands_sent = stats.commands_sent]

\* In the middle of update_stats on the first line, with a key waiting:
\* the duplicate counter has just been raised and equals the total.
C36_Witness ==
    /\ rt.pc = "decode_failures"
    /\ stdin # <<>>
    /\ stats.total_messages = 1
    /\ stats.duplicates = stats.total_messages
=============================================================================
